---- MODULE Spec2Model ----
(***************************************************************************)
(* Model of the lifecycle, voice pool and arpeggiator timer of AudioEngine *)
(* (src/client/src/audio/AudioEngine.ts).  Several engine instances share  *)
(* the window-level registry (window.__spaceWeatherEngine) and starting    *)
(* flag (window.__spaceWeatherStarting).  Timers (setTimeout) and the      *)
(* continuation of the async start() are separate steps of the event loop. *)
(***************************************************************************)
EXTENDS Integers, Sequences, FiniteSets, TLC

\* ---- bounds of the model ----
NumEngines == 2
MaxCtx == 3
MaxArpTimers == 2
MaxTeardowns == 2
MaxPendingStarts == 2
MaxVoices == 8
MaxSamples == 2

\* render quanta the capture tap sees, and commands queued to the worklet
MaxBlocks == 3

MaxCmds == 2

\* capture taps init() installs on one recorder, and samples per block
\* chord voices of the parameters an engine is started with, where the
\* envelope timelines are followed
MaxPool == 2
\* upstream fetches the proxy server starts, and route handlers suspended on
\* one at a time
MaxFetches == 3
MaxWaiting == 2

MaxTaps == 2

\* samples per channel and channels of the inputs of encodeWav
MaxWavLen == 2

MaxWavChannels == 2

BlockLen == 2
\* the tighter bounds of GuardSpec
GuardMaxCtx == 2
GuardMaxTeardowns == 1
GuardMaxPendingStarts == 1

\* contexts constructed in the runs of one instance with its timers
ArpMaxCtx == 2

\* ---- program constants ----
NumChordVoices == 4
NoCtx == 0
NoEngine == 0
NoTimer == 0
\* the timeline of an envelope gain: the writer of the event in effect now
\* and the writers of the events scheduled after now
NoEnv == [current |-> "none", pending |-> {}]

\* the oscillator of a voice and its base pitch: osc.type, baseMidi, and the
\* MIDI note whose frequency osc.frequency is set or targeted to (midiToFreq
\* grows strictly with the note, so the note stands for its frequency)
NoOsc == [type |-> "none", baseMidi |-> 0, target |-> 0]

NoVoice == [ctx |-> 0, rampCtx |-> 0, env |-> NoEnv, osc |-> NoOsc]

Engines == 1..NumEngines
CtxIds == 1..MaxCtx
TimerIds == 1..MaxArpTimers

\* SynthParams: only the fields the lifecycle and the arpeggiator read
\* ---- numbers ----
\* A number is an exact fraction [n, d] in lowest terms with d > 0: the
\* arithmetic of the code without the rounding of doubles.
Gcd[a \in Nat, b \in Nat] == IF b = 0 THEN a ELSE Gcd[b, a % b]

Abs(x) == IF x < 0 THEN -x ELSE x

Q(n, d) == LET g == Gcd[Abs(n), d] IN [n |-> n \div g, d |-> d \div g]

I(k) == [n |-> k, d |-> 1]

Lcm(a, b) == (a \div Gcd[a, b]) * b

\* sums over the least common denominator and products after cancelling, so
\* that no intermediate value is larger than the result needs
QAdd(a, b) ==
  LET l == Lcm(a.d, b.d) IN Q(a.n * (l \div a.d) + b.n * (l \div b.d), l)

QSub(a, b) ==
  LET l == Lcm(a.d, b.d) IN Q(a.n * (l \div a.d) - b.n * (l \div b.d), l)

QMul(a, b) ==
  LET g1 == Gcd[Abs(a.n), b.d]
      g2 == Gcd[Abs(b.n), a.d]
  IN Q((a.n \div g1) * (b.n \div g2), (a.d \div g2) * (b.d \div g1))

\* a / b for b > 0
QDiv(a, b) == QMul(a, [n |-> b.d, d |-> b.n])

\* a <= b: by the integer parts, then by the fractional parts, which compare
\* as their reciprocals do the other way round
RECURSIVE QLe(_, _)
QLe(a, b) ==
  LET fa == a.n \div a.d
      fb == b.n \div b.d
      ra == a.n % a.d
      rb == b.n % b.d
  IN IF fa # fb THEN fa < fb
     ELSE IF ra = 0 THEN TRUE
     ELSE IF rb = 0 THEN FALSE
     ELSE QLe([n |-> b.d, d |-> rb], [n |-> a.d, d |-> ra])

QLt(a, b) == ~QLe(b, a)

\* Math.max, Math.min
MathMax(a, b) == IF QLe(a, b) THEN b ELSE a

MathMin(a, b) == IF QLe(a, b) THEN a ELSE b

\* NOTE_NAMES, types.ts line 79
NOTE_NAMES == <<"C", "C#", "D", "D#", "E", "F", "F#", "G", "G#", "A", "A#", "B">>

\* noteToMidi, types.ts lines 81-85; idx counts from 0 as indexOf does
noteToMidi(note, octave) ==
  IF \A i \in DOMAIN NOTE_NAMES : NOTE_NAMES[i] # note THEN 60
  ELSE LET idx == (CHOOSE i \in DOMAIN NOTE_NAMES : NOTE_NAMES[i] = note) - 1
       IN (octave + 1) * 12 + idx

\* DEFAULT_VOICES, types.ts lines 91-96
DEFAULT_VOICES ==
  <<[note |-> "C#", octave |-> 3], [note |-> "G#", octave |-> 3],
    [note |-> "C", octave |-> 4], [note |-> "F", octave |-> 4]>>

\* the parameters the model keeps of a SynthParams
DEFAULT_SYNTH_PARAMS ==
  [arpEnabled |-> TRUE, arpRate |-> I(4000), masterVolume |-> Q(1, 2),
   cutoff |-> I(2000), resonance |-> Q(3, 2), reverbMix |-> Q(7, 20),
   sharpElevenIntensity |-> Q(3, 20),
   adsr |-> [attack |-> I(3), sustain |-> Q(3, 5)], voices |-> DEFAULT_VOICES,
   waveform |-> "triangle"]

\* the default parameters, with the arpeggiator on or off
SynthParams == {[DEFAULT_SYNTH_PARAMS EXCEPT !.arpEnabled = b] : b \in BOOLEAN}

\* a SynthParams outside the ranges a knob produces
OUT_OF_RANGE_PARAMS ==
  [arpEnabled |-> FALSE, arpRate |-> I(100), masterVolume |-> Q(-1, 2),
   cutoff |-> I(2000), resonance |-> Q(3, 2), reverbMix |-> I(2),
   sharpElevenIntensity |-> Q(3, 20),
   adsr |-> [attack |-> I(3), sustain |-> Q(3, 5)], voices |-> DEFAULT_VOICES,
   waveform |-> "triangle"]

\* a graph parameter no curve was scheduled on: the graph is not built
NoNum == [n |-> 0, d |-> 0]

NoTargets ==
  [masterVolume |-> NoNum, filterFrequency |-> NoNum, filterQ |-> NoNum,
   reverbMix |-> NoNum, reverbDry |-> NoNum, lfoDepth |-> NoNum, colorGain |-> NoNum]

VARIABLES
  ctx,              \* this.ctx : AudioContext | null, per engine
  voices,           \* this.voices : Voice[], per engine
  sharpElevenVoice, \* this.sharpElevenVoice : Voice | null
  masterGain,       \* this.masterGain : the context its graph was built on, NoCtx = undefined
  arpEnabled,       \* this.arpEnabled
  arpTimerId,       \* this.arpTimerId
  params,           \* this.params
  running,          \* this._running
  starting,         \* this._starting
  winEngine,        \* window.__spaceWeatherEngine
  winStarting,      \* window.__spaceWeatherStarting
  ctxState,         \* AudioContext.state of every context: "new" (not constructed yet),
                    \* "suspended", "running", "closed"
  arpTimers,        \* pending setTimeout callbacks of scheduleArpStep, per engine
  teardownTimers,   \* pending setTimeout callbacks of stop(), in firing order
  pendingStarts,    \* start() calls suspended at `await this.ctx.resume()`
  arpRate,          \* this.arpRate, ms
  dataEma,          \* this.dataEma.value, NoNum = null
  samplesFed,       \* number of samples applyDataMapping was called with so far
  targets,          \* the value each graph parameter was last set or targeted to
  hung,             \* the event loop is inside a call that never returns
  tracking,         \* what a behaviour follows beyond the fields of the program:
                    \* "timelines", the automation events of the envelope gains,
                    \* "envelopes", the envelope each firing computes; fixed at
                    \* the start of a behaviour
  appStream,        \* App.tsx: stream, the stream kind selected in the application
  workletNodes,     \* Recorder: the AudioWorkletNodes init() created, oldest first, each
                    \* with its RecorderProcessor._recording and the commands posted to
                    \* its port and not yet received; this.workletNode is the last
  scriptNodes,      \* the ScriptProcessorNodes init() created and connected
  recording,        \* Recorder.recording
  buffers,          \* Recorder.buffers: the blocks pushed, each the number of the
                    \* render quantum it was captured in
  blocksInFlight,   \* blocks the worklets posted that the main thread has not received
  blocksRendered,   \* render quanta processed so far
  blockChannels,    \* the channel count of the input in each render quantum
  blocksAtStart,    \* blocksRendered at the last startRecording() call
  store,            \* cache.ts: store, per key the entry or NoEntry
  inFlight,         \* cache.ts: inFlight, per key the fetch whose promise is stored
  fetches,          \* the calls of fn so far, each with its key and how far it got
  handlers,         \* the route handlers suspended at `await dedup(...)`, oldest first
  now,              \* Date.now() on the server
  lastCall          \* the call or callback of the observed instance that ran last,
                    \* its argument and its outcome

vars == <<ctx, voices, sharpElevenVoice, masterGain, arpEnabled, arpTimerId, params,
          running, starting, winEngine, winStarting, ctxState, arpTimers,
          teardownTimers, pendingStarts, arpRate, dataEma, samplesFed, targets,
          hung, tracking, appStream, workletNodes, scriptNodes, recording, buffers,
          blocksInFlight, blocksRendered, blockChannels, blocksAtStart,
          store, inFlight, fetches, handlers, now, lastCall>>

\* the program state without the observation of the last call
progVars == <<ctx, voices, sharpElevenVoice, masterGain, arpEnabled, arpTimerId, params,
              running, starting, winEngine, winStarting, ctxState, arpTimers,
              teardownTimers, pendingStarts, arpRate, dataEma, samplesFed, targets,
              hung, tracking, appStream, workletNodes, scriptNodes, recording, buffers,
              blocksInFlight, blocksRendered, blockChannels, blocksAtStart>>

\* the state of the proxy server
serverVars == <<store, inFlight, fetches, handlers, now>>

\* The program state as one value, so that a handler is the composition of
\* the statements and calls it makes.
Cur ==
  [ctx |-> ctx, voices |-> voices, sharpElevenVoice |-> sharpElevenVoice,
   masterGain |-> masterGain, arpEnabled |-> arpEnabled, arpTimerId |-> arpTimerId,
   params |-> params, running |-> running, starting |-> starting,
   winEngine |-> winEngine, winStarting |-> winStarting, ctxState |-> ctxState,
   arpTimers |-> arpTimers, teardownTimers |-> teardownTimers,
   pendingStarts |-> pendingStarts, arpRate |-> arpRate, dataEma |-> dataEma,
   samplesFed |-> samplesFed, targets |-> targets, appStream |-> appStream,
   hung |-> hung,
   workletNodes |-> workletNodes, scriptNodes |-> scriptNodes,
   recording |-> recording, buffers |-> buffers, blockChannels |-> blockChannels,
   blocksInFlight |-> blocksInFlight, blocksRendered |-> blocksRendered,
   blocksAtStart |-> blocksAtStart]

Install(s) ==
  /\ ctx' = s.ctx /\ voices' = s.voices /\ sharpElevenVoice' = s.sharpElevenVoice
  /\ masterGain' = s.masterGain /\ arpEnabled' = s.arpEnabled
  /\ arpTimerId' = s.arpTimerId /\ params' = s.params /\ running' = s.running
  /\ starting' = s.starting /\ winEngine' = s.winEngine
  /\ winStarting' = s.winStarting /\ ctxState' = s.ctxState
  /\ arpTimers' = s.arpTimers /\ teardownTimers' = s.teardownTimers
  /\ pendingStarts' = s.pendingStarts
  /\ arpRate' = s.arpRate /\ dataEma' = s.dataEma /\ samplesFed' = s.samplesFed
  /\ targets' = s.targets /\ appStream' = s.appStream
  /\ hung' = s.hung /\ tracking' = tracking
  /\ workletNodes' = s.workletNodes /\ scriptNodes' = s.scriptNodes
  /\ recording' = s.recording /\ buffers' = s.buffers
  /\ blockChannels' = s.blockChannels
  /\ blocksInFlight' = s.blocksInFlight /\ blocksRendered' = s.blocksRendered
  /\ blocksAtStart' = s.blocksAtStart
  /\ UNCHANGED serverVars

\* the bounds of the model, as a guard on the state a step leads to
WithinBounds(s) ==
  /\ \A e \in Engines : s.arpTimers[e] \subseteq TimerIds
  /\ \A e \in Engines : Len(s.voices[e]) <= MaxVoices
  /\ \A e \in Engines : s.ctx[e] \in {NoCtx} \cup CtxIds
  /\ Len(s.teardownTimers) <= MaxTeardowns
  /\ Len(s.pendingStarts) <= MaxPendingStarts

Min(S) == CHOOSE x \in S : \A y \in S : x <= y

\* what a call found when it was made (recorded for initContext and stop)
NoPre == [starting |-> FALSE, running |-> FALSE, win |-> FALSE,
          otherStarting |-> FALSE, otherRunning |-> FALSE, ctx |-> 0]

Call(op, e, arg, result) ==
  [op |-> op, eng |-> e, arg |-> arg, result |-> result, pre |-> NoPre, released |-> {}]

\* The instance the application holds (engineRef.current) is the one whose
\* calls and callbacks are observed; a step of any other instance, or of a
\* context, is recorded as "other".
TheEngine == 1

Other == Call("other", NoEngine, FALSE, "void")

Observed(e, c) == IF e = TheEngine THEN c ELSE Other

----------------------------------------------------------------------------
\* Voice: oscillator + envelope gain, created on context ctx.  rampCtx says
\* since when the envelope gain is heading to silence: the context of the
\* first stop() since which every curve scheduled on it is a ramp to 0, or
\* NoCtx when the curve scheduled last is any other (the initial value, an
\* arpeggiator swell, a steady pad level).
NewVoice(c) == [ctx |-> c, rampCtx |-> NoCtx, env |-> NoEnv, osc |-> NoOsc]

\* a writer other than stop() schedules its curve on the envelope gain
SetGain(v) == [v EXCEPT !.rampCtx = NoCtx]

\* The timeline of the envelope gain of v after a writer put an event at
\* now, and events after now when later: cancels says whether it called
\* cancelScheduledValues(now) first, which removes the events after now.
Written(v, writer, cancels, later) ==
  IF "timelines" \notin tracking THEN v
  ELSE [v EXCEPT !.env.current = writer,
                 !.env.pending = (IF cancels THEN {} ELSE @)
                                   \cup (IF later THEN {writer} ELSE {})]

\* osc.frequency.setTargetAtTime(midiToFreq(baseMidi + shift), ...)
Retuned(v, shift) ==
  IF "pitch" \notin tracking THEN v
  ELSE [v EXCEPT !.osc.target = v.osc.baseMidi + shift]

\* an oscillator created with a waveform and a pitch (lines 227-229, 247-249)
Oscillator(v, type, midi) ==
  IF "pitch" \notin tracking THEN v
  ELSE [v EXCEPT !.osc = [type |-> type, baseMidi |-> midi, target |-> midi]]

\* octaveShifts, line 289
OctaveShifts == {-12, 0, 12}

Schedule(v, writer, cancels, later) ==
  Written(SetGain(v), writer, cancels, later)

\* the writers whose events shape the envelope gain of v from now on
InEffect(v) == {v.env.current} \cup v.env.pending

\* stop(), lines 371-375: cancelScheduledValues; setTargetAtTime(0, now, 0.1)
RampToSilence(v, c) == IF v.rampCtx # NoCtx THEN v ELSE [v EXCEPT !.rampCtx = c]

\* buildVoices: one voice per VoiceConfig pushed on this.voices, and the
\* colour voice assigned
BuildVoices(s, e, p) ==
  IF s.ctx[e] = NoCtx THEN s
  ELSE LET v == Written(NewVoice(s.ctx[e]), "build", FALSE, FALSE)
       IN [s EXCEPT
             !.voices[e] = @ \o [i \in 1..Len(p.voices) |->
                 Oscillator(v, p.waveform,
                            noteToMidi(p.voices[i].note, p.voices[i].octave))],
             !.sharpElevenVoice[e] = Oscillator(v, "sine", noteToMidi("G", 4))]

\* the indices triggerArpNote can draw: 1 voice, or 2 distinct voices
ArpChoices(n) ==
  IF n = 0 THEN {{}}
  ELSE {{i} : i \in 1..n} \cup {{i, j} : i, j \in 1..n}

\* the draws of one triggerArpNote: idx the voices drawn, shift the octave
\* shift drawn for each of them, color whether the 20% colour
\* draw succeeded, hangs whether the loop of lines 284-286 is
\* after two indices in a pool of one voice, where it draws index 0 for ever
NoDraw == [idx |-> {}, color |-> FALSE, hangs |-> FALSE, shift |-> <<>>]

ArpDraws(s, e) ==
  IF s.ctx[e] = NoCtx \/ ~s.running[e] \/ Len(s.voices[e]) = 0 THEN {NoDraw}
  ELSE UNION {{[idx |-> c, color |-> b, hangs |-> FALSE, shift |-> sh] :
                 b \in BOOLEAN,
                 sh \in [c -> IF "pitch" \in tracking THEN OctaveShifts ELSE {0}]} :
               c \in ArpChoices(Len(s.voices[e]))}
         \cup (IF Len(s.voices[e]) = 1
                 THEN {[idx |-> {}, color |-> FALSE, hangs |-> TRUE, shift |-> <<>>]}
                 ELSE {})

\* triggerArpNote with its draws d
TriggerArpNote(s, e, d) ==
  IF s.ctx[e] = NoCtx \/ ~s.running[e] THEN s
  ELSE IF Len(s.voices[e]) = 0 THEN s
  ELSE IF d.hangs THEN [s EXCEPT !.hung = TRUE]
  ELSE [s EXCEPT
          !.voices[e] = [i \in DOMAIN @ |->
                           IF i \in d.idx
                             THEN Schedule(Retuned(@[i], d.shift[i]), "arp", TRUE, TRUE)
                             ELSE @[i]],
          !.sharpElevenVoice[e] =
              IF @ # NoVoice /\ d.color THEN Schedule(@, "arp", TRUE, TRUE) ELSE @]

\* the states triggerArpNote can leave, over all its random draws
ArpOutcomes(s, e) == {TriggerArpNote(s, e, d) : d \in ArpDraws(s, e)}

\* the timer id setTimeout returns: one that is not pending
FreshTimer(s, e) ==
  IF TimerIds \ s.arpTimers[e] = {} THEN MaxArpTimers + 1
  ELSE Min(TimerIds \ s.arpTimers[e])

ScheduleArpStep(s, e) ==
  IF ~s.running[e] \/ s.ctx[e] = NoCtx THEN s
  ELSE [s EXCEPT !.arpTimerId[e] = FreshTimer(s, e),
                 !.arpTimers[e] = @ \cup {FreshTimer(s, e)}]

\* if (this.arpTimerId) { clearTimeout(this.arpTimerId); this.arpTimerId = null; }
ClearArpTimer(s, e) ==
  [s EXCEPT !.arpTimers[e] = @ \ {s.arpTimerId[e]}, !.arpTimerId[e] = NoTimer]

\* this.triggerArpNote(); this.scheduleArpStep(): the second call is not
\* reached when the first does not return
TriggerAndSchedule(s, e) ==
  {IF t.hung THEN t ELSE ScheduleArpStep(t, e) : t \in ArpOutcomes(s, e)}

----------------------------------------------------------------------------
\* stop(), line 365
StopReturnsEarly(s, e) == s.ctx[e] = NoCtx

\* stop() past its early return: the state it leaves and whether it threw.
\* this.masterGain is undefined until the first start() built the graph, so
\* line 376 throws a TypeError then, after the flags, the timer and the
\* voice ramps.
StopBody(s, e) ==
    LET s1 == ClearArpTimer([s EXCEPT !.starting[e] = FALSE, !.winStarting = FALSE], e)
        s2 == [s1 EXCEPT
                 !.voices[e] = [i \in DOMAIN @ |->
                     Written(RampToSilence(@[i], s.ctx[e]), "stop", TRUE, FALSE)],
                 !.sharpElevenVoice[e] =
                     IF @ = NoVoice THEN @
                     ELSE Written(RampToSilence(@, s.ctx[e]), "stop", TRUE, FALSE)]
    IN IF s.masterGain[e] = NoCtx THEN [st |-> s2, threw |-> TRUE]
       ELSE [st |-> [s2 EXCEPT
                       !.running[e] = FALSE,
                       !.ctx[e] = NoCtx,
                       !.winEngine = IF @ = e THEN NoEngine ELSE @,
                       !.teardownTimers = Append(@, [eng |-> e, ctx |-> s.ctx[e]])],
             threw |-> FALSE]

\* (a stop() whose early return comes after the reset of the flags, as the
\* early return of start() does)
StopOnResetFirst(s, e) ==
  IF StopReturnsEarly(s, e)
    THEN [st |-> [s EXCEPT !.starting[e] = FALSE, !.winStarting = FALSE], threw |-> FALSE]
    ELSE StopBody(s, e)

StopOn(s, e) ==
  IF StopReturnsEarly(s, e) THEN [st |-> s, threw |-> FALSE]
  ELSE StopBody(s, e)

\* (an initContext() that does not look at the window-level flag)
InitContextBlockedOwnFlags(s, e) == s.starting[e] \/ s.running[e]

\* initContext(), line 81
InitContextBlocked(s, e) == s.starting[e] \/ s.running[e] \/ s.winStarting

\* new AudioContext(): the next context not constructed yet
FreshCtx(s) ==
  IF \A c \in CtxIds : s.ctxState[c] # "new" THEN MaxCtx + 1
  ELSE Min({c \in CtxIds : s.ctxState[c] = "new"})

\* initContext(): avail is whether new AudioContext() succeeds
InitContextOn(s, e, avail) ==
  IF InitContextBlocked(s, e) THEN [st |-> s, result |-> "false"]
  ELSE
    LET s1 == [s EXCEPT !.starting[e] = TRUE, !.winStarting = TRUE]
        prior == s1.winEngine
        k  == IF prior # NoEngine /\ prior # e
                THEN StopOn(s1, prior) ELSE [st |-> s1, threw |-> FALSE]
        s2 == [k.st EXCEPT !.winEngine = e]
    IN IF k.threw THEN [st |-> k.st, result |-> "throw"]
       ELSE IF ~avail THEN [st |-> s2, result |-> "throw"]
       ELSE [st |-> [s2 EXCEPT !.ctx[e] = FreshCtx(s),
                               !.ctxState = IF FreshCtx(s) \in CtxIds
                                              THEN [@ EXCEPT ![FreshCtx(s)] = "suspended"]
                                              ELSE @],
             result |-> "true"]

\* start(), line 112
StartReturnsEarly(s, e) == s.ctx[e] = NoCtx \/ s.running[e]

\* start(), lines 125-193 and 251: the values the graph parameters start from
BuildGraph(p) ==
  [masterVolume |-> p.masterVolume, filterFrequency |-> p.cutoff, filterQ |-> p.resonance,
   reverbMix |-> p.reverbMix,
   reverbDry |-> QSub(I(1), QMul(p.reverbMix, Q(3, 10))),
   lfoDepth |-> I(80), colorGain |-> I(0)]

\* start() from line 125 on, run at once or after the await
\* (the set of outcomes, one per draw of the first triggerArpNote)
StartBody(s, e, p) ==
  IF s.hung THEN {[st |-> s, threw |-> FALSE]}
  ELSE IF s.ctx[e] = NoCtx THEN {[st |-> s, threw |-> TRUE]}
  ELSE UNION {
    LET s1 == BuildVoices([s EXCEPT !.masterGain[e] = s.ctx[e],
                                    !.targets[e] = graph], e, p)
        s2 == [s1 EXCEPT !.running[e] = TRUE, !.starting[e] = FALSE,
                         !.winStarting = FALSE]
    IN IF p.arpEnabled
         THEN {[st |-> t, threw |-> FALSE] : t \in TriggerAndSchedule(s2, e)}
         ELSE {[st |-> [s2 EXCEPT !.voices[e] =
                          [i \in DOMAIN @ |-> Schedule(@[i], "pad", FALSE, FALSE)]],
                threw |-> FALSE]}
    : graph \in {BuildGraph(p)}}

----------------------------------------------------------------------------
\* EMA (utils/smoothing.ts); the engine constructs it with alpha = 0.12
EMA_ALPHA == Q(3, 25)

EmaUpdateOvershoot(value, raw) ==
  IF value = NoNum THEN raw ELSE QAdd(QMul(EMA_ALPHA, raw), value)

\* EMA.update: the new this.value, which is also what it returns
EmaUpdate(value, raw) ==
  IF value = NoNum THEN raw
  ELSE QAdd(QMul(EMA_ALPHA, raw), QMul(QSub(I(1), EMA_ALPHA), value))

FractionUnclamped(value, inMin, inMax) ==
  QDiv(QSub(value, inMin), QSub(inMax, inMin))

\* the fraction t of mapRange and mapRangeLog, lines 57 and 69
Fraction(value, inMin, inMax) ==
  MathMax(I(0), MathMin(I(1), QDiv(QSub(value, inMin), QSub(inMax, inMin))))

mapRange(value, inMin, inMax, outMin, outMax) ==
  QAdd(outMin, QMul(Fraction(value, inMin, inMax), QSub(outMax, outMin)))

\* Math.exp(logMin + t * (logMax - logMin)) at t = 0, 1/4, 1/2, 3/4, 1 for
\* the two output ranges the engine uses, to the nearest unit
ExpTable(outMin, outMax) ==
  IF outMin = I(400) /\ outMax = I(4000)
    THEN <<400, 711, 1265, 2249, 4000>>
    ELSE <<600, 1019, 1732, 2943, 5000>>

\* mapRangeLog: the exponential of line 72 is taken from ExpTable at the
\* quarters of t and linearly between them
mapRangeLog(value, inMin, inMax, outMin, outMax) ==
  LET t == Fraction(value, inMin, inMax)
      tab == ExpTable(outMin, outMax)
      k == IF QLt(t, Q(1, 4)) THEN 0 ELSE IF QLt(t, Q(1, 2)) THEN 1
           ELSE IF QLt(t, Q(3, 4)) THEN 2 ELSE IF QLt(t, I(1)) THEN 3 ELSE 4
  IN IF k = 4 THEN I(tab[5])
     ELSE QAdd(I(tab[k + 1]),
               QMul(QSub(QMul(I(4), t), I(k)), I(tab[k + 2] - tab[k + 1])))

\* Math.log10 on [1e-9, 1e-4]: exact at the powers of ten and linear between
\* two of them; above 1e-4 every value gives mapRange the fraction 1, and
\* -4 stands for it
Log10(x) ==
  IF QLe(Q(1, 10000), x) THEN I(-4)
  ELSE LET k == CHOOSE j \in 5..9 : QLe(Q(1, 10^j), x) /\ QLt(x, Q(1, 10^(j - 1)))
       IN QAdd(I(-k), QDiv(QSub(QMul(x, I(10^k)), I(1)), I(9)))

DataStream == {"solar-wind-speed", "solar-wind-density", "kp", "xray"}

SetArpRateNoFloor(s, e, ms) ==
  [s EXCEPT !.arpRate[e] = MathMin(I(16000), ms)]

\* setArpRate
SetArpRateOn(s, e, ms) ==
  [s EXCEPT !.arpRate[e] = MathMax(I(300), MathMin(I(16000), ms))]

\* updateParams, lines 416-430, on voice i of the pool: the waveform, and
\* the base pitch when params.voices has an entry i, the frequency with it
\* when this.arpEnabled is false
UpdateVoice(v, i, p, arpOn) ==
  IF "pitch" \notin tracking THEN v
  ELSE LET v1 == [v EXCEPT !.osc.type = p.waveform] IN
       IF i \notin DOMAIN p.voices THEN v1
       ELSE LET midi == noteToMidi(p.voices[i].note, p.voices[i].octave) IN
            [v1 EXCEPT !.osc.baseMidi = midi,
                       !.osc.target = IF arpOn THEN @ ELSE midi]

\* updateParams, lines 402-430 (the delay parameters are not kept)
UpdateParamsOn(s, e, p) ==
  LET s1 == [s EXCEPT !.params[e] = p] IN
  IF s.ctx[e] = NoCtx \/ ~s.running[e] THEN s1
  ELSE [s1 EXCEPT !.targets[e] =
          [@ EXCEPT !.masterVolume = p.masterVolume,
                    !.filterFrequency = p.cutoff,
                    !.filterQ = p.resonance,
                    !.reverbMix = p.reverbMix,
                    !.reverbDry = QSub(I(1), QMul(p.reverbMix, Q(3, 10)))],
                  !.voices[e] = [i \in DOMAIN @ |->
                                   UpdateVoice(@[i], i, p, s.arpEnabled[e])]]

\* the switch of applyDataMapping, lines 453-487, on the smoothed value
ScheduleMapping(s, e, stream, smoothed, sens) ==
  LET cur == s.params[e]
      rest == QSub(I(1), sens)
  IN CASE stream = "solar-wind-speed" ->
            LET cutoff == mapRangeLog(smoothed, I(250), I(800), I(400), I(4000))
                target == QAdd(cur.cutoff, QMul(QSub(cutoff, cur.cutoff), sens))
                arpMs == mapRange(smoothed, I(250), I(800), I(5000), I(1500))
            IN SetArpRateOn([s EXCEPT !.targets[e].filterFrequency = target], e, arpMs)
       [] stream = "solar-wind-density" ->
            LET revMix == QAdd(QMul(mapRange(smoothed, I(1), I(20), Q(3, 20), Q(13, 20)), sens),
                               QMul(cur.reverbMix, rest))
            IN [s EXCEPT !.targets[e].reverbMix = revMix]
       [] stream = "kp" ->
            LET lfoDepth == QMul(mapRange(smoothed, I(0), I(9), I(30), I(300)), sens)
                col == QMul(mapRange(smoothed, I(0), I(9), Q(1, 50), Q(1, 4)), sens)
                res == QAdd(QMul(mapRange(smoothed, I(0), I(9), Q(1, 2), I(6)), sens),
                            QMul(cur.resonance, rest))
                s1 == [s EXCEPT !.targets[e].lfoDepth = lfoDepth]
                s2 == IF s.sharpElevenVoice[e] = NoVoice THEN s1
                      ELSE [s1 EXCEPT !.targets[e].colorGain = col,
                                      !.sharpElevenVoice[e] =
                                          Schedule(@, "kp", FALSE, FALSE)]
            IN [s2 EXCEPT !.targets[e].filterQ = res]
       [] stream = "xray" ->
            LET logFlux == Log10(MathMax(smoothed, Q(1, 1000000000)))
                norm == mapRange(logFlux, I(-8), I(-4), I(0), I(1))
                cutoff == QAdd(QMul(mapRangeLog(norm, I(0), I(1), I(600), I(5000)), sens),
                               QMul(cur.cutoff, rest))
                rev == QAdd(QMul(mapRange(norm, I(0), I(1), Q(1, 10), Q(3, 5)), sens),
                            QMul(cur.reverbMix, rest))
            IN [s EXCEPT !.targets[e].filterFrequency = cutoff,
                         !.targets[e].reverbMix = rev]

ApplyDataMappingIgnoringFrozen(s, e, stream, rawValue, sens, frozen) ==
  LET smoothed == EmaUpdate(s.dataEma[e], rawValue)
      s1 == [s EXCEPT !.dataEma[e] = smoothed, !.samplesFed[e] = @ + 1]
  IN IF s.ctx[e] = NoCtx \/ ~s.running[e] THEN s1
     ELSE ScheduleMapping(s1, e, stream, smoothed, sens)

\* applyDataMapping: the state it leaves; what it returns is the new
\* dataEma value
ApplyDataMappingOn(s, e, stream, rawValue, sens, frozen) ==
  LET smoothed == EmaUpdate(s.dataEma[e], rawValue)
      s1 == [s EXCEPT !.dataEma[e] = smoothed, !.samplesFed[e] = @ + 1]
  IN IF s.ctx[e] = NoCtx \/ ~s.running[e] \/ frozen THEN s1
     ELSE ScheduleMapping(s1, e, stream, smoothed, sens)

----------------------------------------------------------------------------
\* The proxy server: utils/cache.ts (store, getCache, setCache, inFlight,
\* dedup) and the route handlers that use it.  A step is one task of the
\* event loop together with the microtasks it leaves: a request runs its
\* handler up to the first await, and the arrival of an upstream response or
\* of its body runs every continuation that becomes ready.

\* ALLOWED_RANGES, routes/solarWind.ts line 6
ALLOWED_RANGES == {"2-hour", "6-hour", "1-day"}

\* the cache keys of the kp route and of the plasma route
KpKey == "kp"

PlasmaKey(range) == "plasma-" \o range

Keys == {KpKey} \cup {PlasmaKey(r) : r \in ALLOWED_RANGES}

\* the ttlMs a route passes to setCache: 5 * 60_000 for kp, 45_000 for plasma
TTL(key) == IF key = KpKey THEN 5 * 60000 ELSE 45000

NoData == 0
NoFetch == 0

\* store.get(key) is undefined
NoEntry == [data |-> NoData, expiry |-> 0]

----------------------------------------------------------------------------
\* the program's objects after construction
Constructed ==
  /\ ctx = [e \in Engines |-> NoCtx]
  /\ voices = [e \in Engines |-> <<>>]
  /\ sharpElevenVoice = [e \in Engines |-> NoVoice]
  /\ masterGain = [e \in Engines |-> NoCtx]
  /\ arpEnabled = [e \in Engines |-> TRUE]
  /\ arpTimerId = [e \in Engines |-> NoTimer]
  /\ params = [e \in Engines |-> DEFAULT_SYNTH_PARAMS]
  /\ running = [e \in Engines |-> FALSE]
  /\ starting = [e \in Engines |-> FALSE]
  /\ winEngine = NoEngine
  /\ winStarting = FALSE
  /\ ctxState = [c \in CtxIds |-> "new"]
  /\ arpTimers = [e \in Engines |-> {}]
  /\ teardownTimers = <<>>
  /\ pendingStarts = <<>>
  /\ arpRate = [e \in Engines |-> I(3000)]
  /\ dataEma = [e \in Engines |-> NoNum]
  /\ samplesFed = [e \in Engines |-> 0]
  /\ targets = [e \in Engines |-> NoTargets]
  /\ hung = FALSE
  /\ appStream = "solar-wind-speed"
  /\ workletNodes = <<>>
  /\ scriptNodes = 0
  /\ blockChannels = [b \in 1..MaxBlocks |-> 0]
  /\ recording = FALSE
  /\ buffers = <<>>
  /\ blocksInFlight = <<>>
  /\ blocksRendered = 0
  /\ blocksAtStart = 0
  /\ store = [k \in Keys |-> NoEntry]
  /\ inFlight = [k \in Keys |-> NoFetch]
  /\ fetches = <<>>
  /\ handlers = <<>>
  /\ now = 0

Init ==
  /\ Constructed
  /\ tracking = {}
  /\ lastCall = Call("new", NoEngine, FALSE, "void")

\* engine.initContext()
InitContext(e, avail) ==
  LET r == InitContextOn(Cur, e, avail) IN
    /\ WithinBounds(r.st)
    /\ Install(r.st)
    /\ lastCall' = Observed(e, [Call("initContext", e, avail, r.result) EXCEPT
                      !.pre = [starting |-> starting[e], running |-> running[e],
                               win |-> winStarting,
                               otherStarting |-> \E o \in Engines \ {e} :
                                                    starting[o] /\ ctx[o] # NoCtx,
                               otherRunning |-> \E o \in Engines \ {e} : running[o],
                               ctx |-> ctx[e]]])

\* engine.start(params), up to the await of line 122 when ctx.state is
\* 'suspended' there, and to its end when it is not
StartCall(e, p) ==
  IF StartReturnsEarly(Cur, e)
    THEN /\ Install([Cur EXCEPT !.starting[e] = FALSE, !.winStarting = FALSE])
         /\ lastCall' = Observed(e, Call("start", e, p.arpEnabled, "void"))
    ELSE LET s1 == [Cur EXCEPT !.params[e] = p, !.arpRate[e] = p.arpRate] IN
         IF ctxState[ctx[e]] = "suspended"
           THEN LET s2 == [s1 EXCEPT !.pendingStarts =
                              Append(@, [eng |-> e, params |-> p, ctx |-> ctx[e]])] IN
                /\ WithinBounds(s2)
                /\ Install(s2)
                /\ lastCall' = Observed(e, Call("start", e, p.arpEnabled, "await"))
           ELSE \E r \in StartBody(s1, e, p) :
                  /\ WithinBounds(r.st)
                  /\ Install(r.st)
                  /\ lastCall' = Observed(e, Call("start", e, p.arpEnabled,
                                                  IF r.threw THEN "throw" ELSE "void"))

\* the continuations of the start() calls in q, run one after the other from
\* each state of S; a continuation that throws rejects its promise and
\* leaves the state as it was
RECURSIVE RunStarts(_, _)
RunStarts(S, q) ==
  IF q = <<>> THEN S
  ELSE RunStarts(UNION {{r.st : r \in StartBody(s, Head(q).eng, Head(q).params)} : s \in S},
                 Tail(q))

\* The context c starts rendering: its state becomes 'running' and the
\* promises of the pending resume() calls resolve in order, so the start()
\* calls suspended on it continue, back to back, as microtasks.
CtxResumed(c) ==
  /\ ctxState[c] = "suspended"
  /\ LET mine == SelectSeq(pendingStarts, LAMBDA ps : ps.ctx = c)
         rest == SelectSeq(pendingStarts, LAMBDA ps : ps.ctx # c)
         s0 == [Cur EXCEPT !.ctxState[c] = "running", !.pendingStarts = rest]
     IN \E s \in RunStarts({s0}, mine) :
          /\ WithinBounds(s)
          /\ Install(s)
          /\ lastCall' = Other

\* engine.stop()
Stop(e) ==
  LET r == StopOn(Cur, e) IN
    /\ WithinBounds(r.st)
    /\ Install(r.st)
    /\ lastCall' = Observed(e,
                   [Call("stop", e, FALSE, IF r.threw THEN "throw" ELSE "void") EXCEPT
                      !.pre = [NoPre EXCEPT !.running = running[e], !.starting = starting[e],
                                            !.ctx = ctx[e]]])

\* the callback stop() handed to setTimeout(..., 2000), lines 385-393; all
\* teardown timers have the same delay, so they fire in the order scheduled
Teardown ==
  /\ teardownTimers # <<>>
  /\ LET t == Head(teardownTimers)
         e == t.eng
         all == {voices[e][i] : i \in DOMAIN voices[e]}
                  \cup (IF sharpElevenVoice[e] = NoVoice THEN {} ELSE {sharpElevenVoice[e]})
     IN /\ Install([Cur EXCEPT
                      !.voices[e] = <<>>,
                      !.sharpElevenVoice[e] = NoVoice,
                      !.ctxState[t.ctx] = "closed",
                      !.ctx[e] = NoCtx,
                      !.teardownTimers = Tail(@),
                      !.pendingStarts = SelectSeq(@, LAMBDA ps : ps.ctx # t.ctx)])
        /\ lastCall' = Observed(e,
                       [Call("teardown", e, FALSE, "void") EXCEPT
                          !.released = {[ctx |-> v.ctx, rampCtx |-> v.rampCtx, by |-> t.ctx]
                                          : v \in all}])

\* an envelope whose peak draw spans twice the range
EnvelopeWide(p, r) ==
  [peakLevel |-> QMul(QAdd(Q(7, 20), QMul(r.peak, Q(2, 5))), p.adsr.sustain),
   attack |-> QAdd(Q(1, 10), QMul(r.attack, QMul(p.adsr.attack, Q(3, 10))))]

\* lines 308-309: the peak level and the attack time of a fired voice, r
\* the two values Math.random() returned
Envelope(p, r) ==
  [peakLevel |-> QMul(QAdd(Q(7, 20), QMul(r.peak, Q(1, 5))), p.adsr.sustain),
   attack |-> QAdd(Q(1, 10), QMul(r.attack, QMul(p.adsr.attack, Q(3, 10))))]

\* values of Math.random(), which lie in [0, 1)
RandomDraws ==
  {[peak |-> I(0), attack |-> I(0)], [peak |-> Q(1, 2), attack |-> Q(999, 1000)],
   [peak |-> Q(999, 1000), attack |-> Q(1, 2)]}

\* The callback scheduleArpStep handed to setTimeout, lines 269-272.  Where
\* the envelope timelines are followed the step records the draws of the
\* firing: the voices fired and the envelope of each.
ArpFire(e) ==
  \E id \in arpTimers[e] :
    LET s1 == [Cur EXCEPT !.arpTimers[e] = @ \ {id}] IN
    \E d \in ArpDraws(s1, e) :
      \E rs \in (IF "envelopes" \in tracking THEN [d.idx -> RandomDraws] ELSE {<<>>}) :
        \E t \in {TriggerArpNote(s1, e, d)} :
        \E s2 \in {IF t.hung THEN t ELSE ScheduleArpStep(t, e)} :
           /\ WithinBounds(s2)
           /\ Install(s2)
           /\ lastCall' = Observed(e,
                [Call("arpFire", e, FALSE,
                      IF "envelopes" \in tracking
                        THEN [fired |-> d.idx, color |-> d.color, hangs |-> d.hangs,
                              envelope |-> [i \in d.idx |-> Envelope(params[e], rs[i])]]
                        ELSE "void")
                   EXCEPT !.pre = [NoPre EXCEPT !.running = running[e], !.ctx = ctx[e]]])

\* engine.setArpEnabled(enabled)
SetArpEnabledOn(s, e, enabled) ==
  IF enabled = s.arpEnabled[e] THEN s
  ELSE
    LET s1 == [s EXCEPT !.arpEnabled[e] = enabled] IN
    IF ~enabled
      THEN LET s2 == ClearArpTimer(s1, e) IN
           IF s2.ctx[e] # NoCtx /\ s2.running[e]
             THEN [s2 EXCEPT
                     !.voices[e] = [i \in DOMAIN @ |->
                         Schedule(Retuned(@[i], 0), "disable", TRUE, FALSE)],
                     !.sharpElevenVoice[e] =
                         IF @ = NoVoice THEN @
                         ELSE Schedule(@, "disable", TRUE, FALSE)]
             ELSE s2
      ELSE IF s1.running[e] THEN ScheduleArpStep(s1, e) ELSE s1

SetArpEnabled(e, enabled) ==
  LET s1 == SetArpEnabledOn(Cur, e, enabled) IN
    /\ WithinBounds(s1)
    /\ Install(s1)
    /\ lastCall' = Observed(e,
         IF "timelines" \in tracking
           THEN [Call("setArpEnabled", e, enabled,
                      \* lines 344-357: the levels the call targets, when it
                      \* reaches them
                      IF enabled # arpEnabled[e] /\ ~enabled
                           /\ ctx[e] # NoCtx /\ running[e]
                        THEN [settles |-> TRUE,
                              level |-> QMul(params[e].adsr.sustain, Q(1, 5)),
                              colorLevel |->
                                QMul(params[e].sharpElevenIntensity, Q(1, 10))]
                        ELSE [settles |-> FALSE])
                   EXCEPT !.pre = [running |-> running[e], ctx |-> ctx[e],
                                   arpEnabled |-> arpEnabled[e],
                                   timers |-> arpTimers[e]]]
           ELSE Call("setArpEnabled", e, enabled, "void"))

\* Time passes on the context of engine e: the events scheduled after now
\* on its envelope gains are reached, and the last of them is in effect.
Elapse(e) ==
  /\ \/ \E i \in DOMAIN voices[e] : voices[e][i].env.pending # {}
     \/ sharpElevenVoice[e].env.pending # {}
  /\ LET reached(v) ==
           IF v.env.pending = {} THEN v
           ELSE [v EXCEPT !.env.current = CHOOSE w \in v.env.pending : TRUE,
                          !.env.pending = {}]
     IN Install([Cur EXCEPT !.voices[e] = [i \in DOMAIN @ |-> reached(@[i])],
                            !.sharpElevenVoice[e] = reached(@)])
  /\ lastCall' = Other

----------------------------------------------------------------------------
\* engine.setArpRate(ms)
SetArpRate(e, ms) ==
  /\ Install(SetArpRateOn(Cur, e, ms))
  /\ lastCall' = Observed(e, Call("setArpRate", e, ms, "void"))

\* engine.updateParams(params)
UpdateParams(e, p) ==
  /\ Install(UpdateParamsOn(Cur, e, p))
  /\ lastCall' = Observed(e,
       IF "pitch" \in tracking
         THEN [Call("updateParams", e, p, "void")
                 EXCEPT !.pre = [running |-> running[e], ctx |-> ctx[e],
                                 arpEnabled |-> arpEnabled[e]]]
         ELSE Call("updateParams", e, p, "void"))

\* engine.applyDataMapping(stream, rawValue, _allData, sensitivity, frozen);
\* the result recorded is the smoothedValue returned, and pre holds the
\* running flag, the context and the EMA value the call found
ApplyDataMapping(e, stream, rawValue, sens, frozen) ==
  /\ samplesFed[e] < MaxSamples
  /\ LET s1 == ApplyDataMappingOn(Cur, e, stream, rawValue, sens, frozen) IN
       /\ Install(s1)
       /\ lastCall' = Observed(e,
            [Call("applyDataMapping", e,
                  [stream |-> stream, rawValue |-> rawValue,
                   sensitivity |-> sens, frozen |-> frozen],
                  s1.dataEma[e])
               EXCEPT !.pre = [running |-> running[e], ctx |-> ctx[e],
                               ema |-> dataEma[e]]])

ResetKeepsValue(s, e) == s

\* resetDataSmoothing: EMA.reset() (recentValues is not kept)
ResetDataSmoothingOn(s, e) == [s EXCEPT !.dataEma[e] = NoNum]

\* engine.resetDataSmoothing()
ResetDataSmoothing(e) ==
  /\ Install(ResetDataSmoothingOn(Cur, e))
  /\ lastCall' = Observed(e, Call("resetDataSmoothing", e, FALSE, "void"))

\* App.tsx handleStreamChange(st): setStream(st) and
\* engine.resetDataSmoothing(); arg is the stream selected
HandleStreamChange(e, st) ==
  /\ st # appStream
  /\ Install(ResetDataSmoothingOn([Cur EXCEPT !.appStream = st], e))
  /\ lastCall' = Observed(e, Call("resetDataSmoothing", e, st, "void"))

----------------------------------------------------------------------------
\* Recorder (audio/Recorder.ts) and its capture taps: the RecorderProcessor of
\* recorder-worklet.js on the audio thread, reached through a message port
\* in each direction, or the ScriptProcessorNode fallback on the main thread.
\* A sample is named by the block, the channel and the position it has in
\* the block; Zero is the 0 a new Float32Array holds.
Zero == <<0, 0, 0>>

BlockData(b, ch) == [i \in 1..BlockLen |-> <<b, ch, i>>]

\* stopRecording, lines 92-105: one merged run per channel, as long as
\* channel 0 of all blocks together; a block without the channel is passed
\* over and the write offset stays
MergeChannel(bufs, chans, ch) ==
  LET present == SelectSeq(bufs, LAMBDA b : chans[b] >= ch)
      written == [k \in 1..(BlockLen * Len(present)) |->
                    BlockData(present[((k - 1) \div BlockLen) + 1], ch)[((k - 1) % BlockLen) + 1]]
  IN written \o [k \in 1..(BlockLen * (Len(bufs) - Len(present))) |-> Zero]

\* as many channels as the first block has (line 89)
MergeBuffers(bufs, chans) ==
  LET numChannels == IF chans[bufs[1]] = 0 THEN 2 ELSE chans[bufs[1]]
  IN [ch \in 1..numChannels |-> MergeChannel(bufs, chans, ch)]

\* what stopRecording() returns: a Take, given by the blocks it was made of
\* and the channel data handed to encodeWav, or null
NoTake == [take |-> FALSE, blocks |-> <<>>, channelData |-> <<>>]

TakeOf(bufs, chans) ==
  [take |-> TRUE, blocks |-> bufs, channelData |-> MergeBuffers(bufs, chans)]

\* port.postMessage({ command }) to this.workletNode once a worklet is ready
PostCommand(s, cmd) ==
  IF s.workletNodes = <<>> THEN s
  ELSE [s EXCEPT !.workletNodes[Len(s.workletNodes)].cmds = Append(@, cmd)]

\* recorder.init(): a new worklet node, or a new script node when addModule
\* rejects; the nodes of earlier calls stay connected
RecorderInit(worklet) ==
  /\ Len(workletNodes) + scriptNodes < MaxTaps
  /\ Install(IF worklet
               THEN [Cur EXCEPT !.workletNodes =
                       Append(@, [recording |-> FALSE, cmds |-> <<>>])]
               ELSE [Cur EXCEPT !.scriptNodes = @ + 1])
  /\ lastCall' = Call("init", NoEngine, worklet, "void")

StartRecordingOn(s) ==
  PostCommand([s EXCEPT !.buffers = <<>>, !.recording = TRUE,
                        !.blocksAtStart = s.blocksRendered], "start")

\* room in the port of this.workletNode for one more command
PortHasRoom ==
  IF workletNodes = <<>> THEN TRUE
  ELSE Len(workletNodes[Len(workletNodes)].cmds) < MaxCmds

\* recorder.startRecording()
StartRecording ==
  /\ PortHasRoom
  /\ Install(StartRecordingOn(Cur))
  /\ lastCall' = Call("startRecording", NoEngine, FALSE, "void")

\* stopRecording as it would be without clearing the flag and the buffer
StopRecordingKeepsState(s) ==
  IF ~s.recording \/ s.buffers = <<>> THEN [st |-> s, result |-> NoTake]
  ELSE [st |-> s, result |-> TakeOf(s.buffers, s.blockChannels)]

\* stopRecording as it would be without the test for an empty buffer
StopRecordingEmptyTake(s) ==
  IF ~s.recording THEN [st |-> s, result |-> NoTake]
  ELSE [st |-> [PostCommand([s EXCEPT !.recording = FALSE], "stop") EXCEPT !.buffers = <<>>],
        result |-> [take |-> TRUE, blocks |-> s.buffers, channelData |-> <<>>]]

\* stopRecording: the state it leaves and what it returns
StopRecordingOn(s) ==
  IF ~s.recording THEN [st |-> s, result |-> NoTake]
  ELSE LET s1 == PostCommand([s EXCEPT !.recording = FALSE], "stop")
       IN IF s.buffers = <<>> THEN [st |-> s1, result |-> NoTake]
          ELSE [st |-> [s1 EXCEPT !.buffers = <<>>],
                result |-> TakeOf(s.buffers, s.blockChannels)]

\* recorder.stopRecording(); pre holds the recording flag and whether a
\* block was buffered at the call, and whether the call before it was a
\* stopRecording() and returned a Take
StopRecording ==
  /\ PortHasRoom
  /\ LET r == StopRecordingOn(Cur) IN
       /\ Install(r.st)
       /\ lastCall' =
            [Call("stopRecording", NoEngine, recording, r.result)
               EXCEPT !.pre = [recording |-> recording,
                               buffered |-> buffers # <<>>,
                               afterStop |-> lastCall.op = "stopRecording",
                               afterTake |-> /\ lastCall.op = "stopRecording"
                                             /\ lastCall.result.take]]

\* RecorderProcessor port.onmessage of node i: its oldest command arrives
WorkletCommand(i) ==
  /\ workletNodes[i].cmds # <<>>
  /\ Install([Cur EXCEPT !.workletNodes[i] =
                [recording |-> (Head(@.cmds) = "start"), cmds |-> Tail(@.cmds)]])
  /\ lastCall' = Call("workletCommand", NoEngine, Head(workletNodes[i].cmds), "void")

\* RecorderProcessor.process() of every worklet node on one render quantum
\* with chans input channels: each posts the block when its _recording is
\* set and the input has a channel
WorkletProcess(chans) ==
  /\ workletNodes # <<>>
  /\ blocksRendered < MaxBlocks
  /\ LET b == blocksRendered + 1
         posting == SelectSeq(workletNodes, LAMBDA n : n.recording /\ chans > 0)
     IN Install([Cur EXCEPT !.blocksRendered = b,
                            !.blockChannels[b] = chans,
                            !.blocksInFlight = @ \o [i \in 1..Len(posting) |-> b]])
  /\ lastCall' = Call("process", NoEngine, chans, "void")

\* Recorder's workletNode.port.onmessage: the oldest block arrives
PortMessage ==
  /\ blocksInFlight # <<>>
  /\ LET s1 == [Cur EXCEPT !.blocksInFlight = Tail(@)]
     IN Install(IF recording
                  THEN [s1 EXCEPT !.buffers = Append(@, Head(blocksInFlight))] ELSE s1)
  /\ lastCall' = Call("portMessage", NoEngine, Head(blocksInFlight), "void")

\* scriptNode.onaudioprocess of every script node on one block (two input
\* channels, line 53): each pushes it when recording
AudioProcess ==
  /\ scriptNodes > 0
  /\ blocksRendered < MaxBlocks
  /\ LET b == blocksRendered + 1
         s1 == [Cur EXCEPT !.blocksRendered = b, !.blockChannels[b] = 2]
     IN Install(IF recording
                  THEN [s1 EXCEPT !.buffers = @ \o [i \in 1..scriptNodes |-> b]]
                  ELSE s1)
  /\ lastCall' = Call("audioProcess", NoEngine, FALSE, "void")

\* App.tsx 188-194: the application calls init() once on each Recorder
\* it makes
InitOnce(worklet) ==
  /\ workletNodes = <<>>
  /\ scriptNodes = 0
  /\ RecorderInit(worklet)

\* One recorder as the application drives it: one init, any number of
\* recordings, and the blocks and commands crossing between the main thread
\* and the audio thread.
RecNext ==
  \/ \E worklet \in BOOLEAN : InitOnce(worklet)
  \/ StartRecording
  \/ StopRecording
  \/ \E i \in DOMAIN workletNodes : WorkletCommand(i)
  \/ \E chans \in 0..2 : WorkletProcess(chans)
  \/ PortMessage
  \/ AudioProcess

\* One recorder whose init() is called at any time, any number of times
TapNext ==
  \/ \E worklet \in BOOLEAN : RecorderInit(worklet)
  \/ StartRecording
  \/ StopRecording
  \/ \E i \in DOMAIN workletNodes : WorkletCommand(i)
  \/ \E chans \in 0..2 : WorkletProcess(chans)
  \/ PortMessage
  \/ AudioProcess

TapSpec == Init /\ [][TapNext]_vars

\* encodeWav (audio/wavEncode.ts): 16-bit PCM in a RIFF/WAVE container.
\* A Float32Array element that is not a finite number has denominator 0.
NaN == [n |-> 0, d |-> 0]

Infinity == [n |-> 1, d |-> 0]

NegInfinity == [n |-> -1, d |-> 0]

\* Math.max(-1, Math.min(1, x)), line 43: NaN stays NaN
ClampSample(x) ==
  IF x.d = 0
    THEN IF x.n = 0 THEN NaN ELSE IF x.n > 0 THEN I(1) ELSE I(-1)
    ELSE MathMax(I(-1), MathMin(I(1), x))

\* the integer part of a number, toward zero
Trunc(x) == IF x.n >= 0 THEN x.n \div x.d ELSE -((-x.n) \div x.d)

\* DataView.setInt16 stores ToInt16 of its argument: NaN is 0, a number is
\* truncated and wrapped to 16 bits
ToInt16(x) == IF x.d = 0 THEN 0 ELSE ((Trunc(x) + 32768) % 65536) - 32768

\* Pcm16 as it would be without the clamp
Pcm16Unclamped(x) ==
  ToInt16(IF x.d = 0 THEN NaN
          ELSE IF QLt(x, I(0)) THEN QMul(x, I(32768)) ELSE QMul(x, I(32767)))

\* lines 43-46: the 16-bit value one sample is stored as
Pcm16(x) ==
  LET sample == ClampSample(x)
      int16 == IF sample.d = 0 THEN NaN
               ELSE IF QLt(sample, I(0)) THEN QMul(sample, I(32768))
               ELSE QMul(sample, I(32767))
  IN ToInt16(int16)

\* little-endian bytes of setInt16, setUint16 and setUint32
Int16LE(v) == <<(v % 65536) % 256, (v % 65536) \div 256>>

Uint16LE(v) == <<(v % 65536) % 256, (v % 65536) \div 256>>

Uint32LE(v) ==
  <<v % 256, (v \div 256) % 256, (v \div 65536) % 256, (v \div 16777216) % 256>>

\* writeString: the character codes of 'RIFF', 'WAVE', 'fmt ' and 'data'
RIFF == <<82, 73, 70, 70>>

WAVE == <<87, 65, 86, 69>>

FMT == <<102, 109, 116, 32>>

DATA == <<100, 97, 116, 97>>

\* channelData[ch][i]; reading past the end of a typed array gives
\* undefined, which the arithmetic turns into NaN
SampleAt(channelData, ch, i) ==
  IF i <= Len(channelData[ch]) THEN channelData[ch][i] ELSE NaN

\* SampleBytes as it would be with one channel after the other
SampleBytesPlanar(channelData, numSamples) ==
  LET numChannels == Len(channelData)
      run[ch \in 1..numChannels, i \in 0..numSamples] ==
        IF i = 0 THEN <<>>
        ELSE run[ch, i - 1] \o Int16LE(Pcm16(SampleAt(channelData, ch, i)))
      upTo[ch \in 0..numChannels] ==
        IF ch = 0 THEN <<>> ELSE upTo[ch - 1] \o run[ch, numSamples]
  IN upTo[numChannels]

\* lines 38-49: the bytes the loops write, sample by sample and inside a
\* sample channel by channel, each at the offset the one before left
SampleBytes(channelData, numSamples) ==
  LET numChannels == Len(channelData)
      frame[i \in 1..numSamples, ch \in 0..numChannels] ==
        IF ch = 0 THEN <<>>
        ELSE frame[i, ch - 1] \o Int16LE(Pcm16(SampleAt(channelData, ch, i)))
      upTo[i \in 0..numSamples] ==
        IF i = 0 THEN <<>> ELSE upTo[i - 1] \o frame[i, numChannels]
  IN upTo[numSamples]

\* encodeWav(channelData, sampleRate): the bytes of the Blob
EncodeWav(channelData, sampleRate) ==
  LET numChannels == Len(channelData)
      numSamples == Len(channelData[1])
      bitsPerSample == 16
      bytesPerSample == bitsPerSample \div 8
      blockAlign == numChannels * bytesPerSample
      dataSize == numSamples * blockAlign
  IN RIFF \o Uint32LE(36 + dataSize) \o WAVE
       \o FMT \o Uint32LE(16) \o Uint16LE(1) \o Uint16LE(numChannels)
       \o Uint32LE(sampleRate) \o Uint32LE(sampleRate * blockAlign)
       \o Uint16LE(blockAlign) \o Uint16LE(bitsPerSample)
       \o DATA \o Uint32LE(dataSize)
       \o SampleBytes(channelData, numSamples)

\* samples below, at and above the clamp, next to zero on both sides, and
\* not finite
WavSamples ==
  {NegInfinity, I(-2), I(-1), Q(-1, 2), Q(-3, 65536), Q(-1, 65536), I(0),
   Q(1, 65536), Q(1, 2), Q(32767, 32768), I(1), Q(3, 2), Infinity, NaN}

\* samples of the longer inputs
LayoutSamples == {I(-1), Q(1, 2), Q(3, 2)}

SampleRates == {44100, 48000}

\* the channel data stopRecording() hands over: at least one channel, all
\* of one length; one-sample inputs of every kind of sample and longer
\* inputs of a few
WavInputs ==
  {<<<<x>>>> : x \in WavSamples}
    \cup UNION {[1..c -> [1..len -> LayoutSamples]] :
                  c \in 1..MaxWavChannels, len \in 0..MaxWavLen}

\* the input of a call that is about to be made
WavInit ==
  /\ Constructed
  /\ tracking = {}
  /\ \E channelData \in WavInputs, sampleRate \in SampleRates :
        lastCall = Call("input", NoEngine,
                        [channelData |-> channelData, sampleRate |-> sampleRate],
                        <<>>)

\* the call of encodeWav and the bytes it returns
EncodeWavCall ==
  /\ lastCall.op = "input"
  /\ Install(Cur)
  /\ lastCall' = Call("encodeWav", NoEngine, lastCall.arg,
                      EncodeWav(lastCall.arg.channelData, lastCall.arg.sampleRate))

WavNext == EncodeWavCall

WavSpec == WavInit /\ [][WavNext]_vars

----------------------------------------------------------------------------
\* utils/cache.ts and the route handlers
\* a getCache that serves an entry whatever its expiry
GetCacheAnyAge(st, key, t) ==
  IF st[key] = NoEntry THEN [store |-> st, data |-> NoData]
  ELSE [store |-> st, data |-> st[key].data]

\* getCache, lines 8-16: the store it leaves and what it returns (NoData is
\* null)
GetCache(st, key, t) ==
  IF st[key] = NoEntry THEN [store |-> st, data |-> NoData]
  ELSE IF t > st[key].expiry
         THEN [store |-> [st EXCEPT ![key] = NoEntry], data |-> NoData]
         ELSE [store |-> st, data |-> st[key].data]

\* setCache, lines 18-20
SetCache(st, key, data, ttlMs, t) ==
  [st EXCEPT ![key] = [data |-> data, expiry |-> t + ttlMs]]

\* a dedup whose promise leaves its in-flight entry in place
SettledKeepsEntry(inf, key) == inf

\* the callback dedup hands to finally, line 28: inFlight.delete(key)
SettledDeletes(inf, key) == [inf EXCEPT ![key] = NoFetch]

\* dedup, lines 25-31, called by a handler for key: the fetch whose promise
\* the handler gets, and whether fn was invoked to start it
Dedup(inf, key, next) ==
  IF inf[key] # NoFetch
    THEN [inFlight |-> inf, fetch |-> inf[key], invoked |-> FALSE]
    ELSE [inFlight |-> [inf EXCEPT ![key] = next], fetch |-> next, invoked |-> TRUE]

\* what the server state was when a task began
ServerPre ==
  [store |-> store, inFlight |-> inFlight, fetched |-> Len(fetches), now |-> now]

ServerCall(op, arg, result) ==
  [Call(op, NoEngine, arg, result) EXCEPT !.pre = ServerPre]

\* A route handler from its cache lookup to its first await or to its
\* response (kp lines 7-12, plasma lines 21-26).
Lookup(key) ==
  LET got == GetCache(store, key, now) IN
  IF got.data # NoData
    THEN /\ store' = got.store
         /\ UNCHANGED <<inFlight, fetches, handlers>>
         /\ lastCall' = ServerCall("request", key,
                                   [status |-> 200, data |-> got.data, from |-> "cache"])
    ELSE LET d == Dedup(inFlight, key, Len(fetches) + 1) IN
         /\ Len(handlers) < MaxWaiting
         /\ d.invoked => Len(fetches) < MaxFetches
         /\ store' = got.store
         /\ inFlight' = d.inFlight
         /\ fetches' = IF d.invoked
                         THEN Append(fetches, [key |-> key, stage |-> "fetching"])
                         ELSE fetches
         /\ handlers' = Append(handlers, [key |-> key, awaits |-> d.fetch])
         /\ lastCall' = ServerCall("request", key,
                                   [status |-> 0, data |-> NoData, from |-> "await"])

\* GET /api/kp
KpRequest ==
  /\ Lookup(KpKey)
  /\ UNCHANGED <<now, progVars>>

\* GET /api/solar-wind/plasma?range=...; "" is a request without the query
\* parameter (lines 15-19)
PlasmaRequest(query) ==
  LET range == IF query = "" THEN "1-day" ELSE query IN
  IF range \notin ALLOWED_RANGES
    THEN /\ UNCHANGED <<store, inFlight, fetches, handlers, now, progVars>>
         /\ lastCall' = ServerCall("request", query,
                                   [status |-> 400, data |-> NoData, from |-> "none"])
    ELSE /\ Lookup(PlasmaKey(range))
         /\ UNCHANGED <<now, progVars>>

\* The promise of fn() for fetch f settles, rejected or fulfilled with data:
\* the finally callback runs, then the handlers awaiting the promise continue
\* in the order they began to wait (kp lines 24-25 and 26-31, plasma 40-47).
RECURSIVE Continue(_, _, _, _)
Continue(st, hs, f, ok) ==
  IF hs = <<>> THEN [store |-> st, responses |-> <<>>]
  ELSE LET h == Head(hs) IN
       IF h.awaits # f THEN Continue(st, Tail(hs), f, ok)
       ELSE LET st1 == IF ok THEN SetCache(st, h.key, f, TTL(h.key), now) ELSE st
                rest == Continue(st1, Tail(hs), f, ok)
            IN [store |-> rest.store,
                responses |-> <<[status |-> IF ok THEN 200 ELSE 502,
                                 data |-> IF ok THEN f ELSE NoData]>>
                              \o rest.responses]

Settle(f, ok) ==
  LET c == Continue(store, handlers, f, ok) IN
  /\ fetches' = [fetches EXCEPT ![f].stage = IF ok THEN "fulfilled" ELSE "rejected"]
  /\ inFlight' = SettledDeletes(inFlight, fetches[f].key)
  /\ store' = c.store
  /\ handlers' = SelectSeq(handlers, LAMBDA h : h.awaits # f)
  /\ lastCall' = ServerCall("settled", f,
                            [ok |-> ok, responses |-> c.responses])

\* await fetch(url) of fetch f ends (kp lines 14-15, plasma 28-29): the
\* response is ok, or has an error status, or the request failed
ResponseArrives(f, outcome) ==
  /\ f \in DOMAIN fetches
  /\ fetches[f].stage = "fetching"
  /\ IF outcome = "ok"
       THEN /\ fetches' = [fetches EXCEPT ![f].stage = "reading"]
            /\ UNCHANGED <<store, inFlight, handlers>>
            /\ lastCall' = ServerCall("response", f, outcome)
       ELSE Settle(f, FALSE)
  /\ UNCHANGED <<now, progVars>>

\* await resp.json() of fetch f ends (kp lines 16-21, plasma 30-37): the
\* body parses and maps, or it does not
BodyArrives(f, parses) ==
  /\ f \in DOMAIN fetches
  /\ fetches[f].stage = "reading"
  /\ Settle(f, parses)
  /\ UNCHANGED <<now, progVars>>

\* instants of Date.now(), in ms since the server started: at and just
\* after the expiry of an entry stored at 0 with either ttl
Instants == {1, 45000, 45001, 300000, 300001}

\* time passes
Tick(t) ==
  /\ t > now
  /\ now' = t
  /\ UNCHANGED <<store, inFlight, fetches, handlers, progVars>>
  /\ lastCall' = ServerCall("tick", t, "void")

ServerInit ==
  /\ Constructed
  /\ tracking = {}
  /\ lastCall = Call("new", NoEngine, FALSE, "void")

ServerNext ==
  \/ KpRequest
  \/ \E query \in {"", "1-day", "3-day"} : PlasmaRequest(query)
  \/ \E f \in 1..MaxFetches, outcome \in {"ok", "status", "failed"} :
        ResponseArrives(f, outcome)
  \/ \E f \in 1..MaxFetches, parses \in BOOLEAN : BodyArrives(f, parses)
  \/ \E t \in Instants : Tick(t)

ServerSpec == ServerInit /\ [][ServerNext]_vars

RecSpec == Init /\ [][RecNext]_vars

----------------------------------------------------------------------------
\* Lifecycle of several engine instances sharing the window: every call of
\* initContext/start/stop on every instance, started as a steady pad
\* (params.arpEnabled = false), with the teardown timers.
PadParams == {p \in SynthParams : ~p.arpEnabled}

Next ==
  \/ \E e \in Engines, avail \in BOOLEAN : InitContext(e, avail)
  \/ \E e \in Engines, p \in PadParams : StartCall(e, p)
  \/ \E c \in CtxIds : CtxResumed(c)
  \/ \E e \in Engines : Stop(e)
  \/ Teardown

Spec == Init /\ [][Next]_vars

\* The same lifecycle with fewer contexts constructed and fewer timers and
\* start() calls pending at a time.
GuardBounds ==
  /\ \A c \in CtxIds : c > GuardMaxCtx => ctxState[c] = "new"
  /\ Len(teardownTimers) <= GuardMaxTeardowns
  /\ Len(pendingStarts) <= GuardMaxPendingStarts

GuardNext ==
  \/ \E e \in Engines, avail \in BOOLEAN : InitContext(e, avail) /\ GuardBounds'
  \/ \E e \in Engines, p \in PadParams : StartCall(e, p) /\ GuardBounds'
  \/ \E c \in CtxIds : CtxResumed(c) /\ GuardBounds'
  \/ \E e \in Engines : Stop(e) /\ GuardBounds'
  \/ Teardown /\ GuardBounds'

GuardSpec == Init /\ [][GuardNext]_vars

\* The data mapping of one engine instance: its lifecycle with the parameter
\* pushes and telemetry samples of the application, over parameters in and
\* out of the knob ranges and samples below, inside and above the mapped
\* domains.
MapParams == {DEFAULT_SYNTH_PARAMS, OUT_OF_RANGE_PARAMS}

ArpRateInputs == {I(-4000), I(0), I(299), I(4000), I(16001), I(1000000000)}

\* samples below, inside and above the domain the mapping of each stream
\* kind is stated for
StreamValues(st) ==
  CASE st = "solar-wind-speed" -> {I(100), I(500), I(1000)}
    [] st = "solar-wind-density" -> {I(0), I(5), I(50)}
    [] st = "kp" -> {I(-1), I(4), I(12)}
    [] st = "xray" -> {I(0), Q(1, 1000000), Q(1, 1000)}

MapArpRates == {I(-4000), I(1000000000)}

MapRawValues == {I(5), I(9)}

SensValues == {I(0), I(1), I(3)}

\* The application starts an instance once and replaces it when it stopped
\* it (App.tsx, handleStartAudio and handleStopAudio).
NeverStarted == \A c \in CtxIds : ctxState[c] = "new"

MapNext ==
  \/ NeverStarted /\ InitContext(TheEngine, TRUE)
  \/ \E p \in MapParams :
        starting[TheEngine] /\ pendingStarts = <<>> /\ StartCall(TheEngine, p)
  \/ \E c \in CtxIds : CtxResumed(c)
  \/ Stop(TheEngine)
  \/ Teardown
  \/ \E ms \in MapArpRates : SetArpRate(TheEngine, ms)
  \/ \E p \in MapParams : UpdateParams(TheEngine, p)
  \/ \E st \in DataStream, rawValue \in MapRawValues, sens \in SensValues :
        ApplyDataMapping(TheEngine, st, rawValue, sens, FALSE)
  \/ ResetDataSmoothing(TheEngine)

MapSpec == Init /\ [][MapNext]_vars

\* The telemetry feed of one engine instance at full sensitivity, as the
\* application drives it (App.tsx 152-158 and 227-231): samples of the
\* selected stream kind below, inside and above its mapped domain, frozen or
\* not, before, during and after the session, with the smoothing reset in
\* between and on every change of the stream kind.
FeedNext ==
  \/ NeverStarted /\ InitContext(TheEngine, TRUE)
  \/ /\ starting[TheEngine] /\ pendingStarts = <<>>
     /\ StartCall(TheEngine, DEFAULT_SYNTH_PARAMS)
  \/ \E c \in CtxIds : CtxResumed(c)
  \/ Stop(TheEngine)
  \/ Teardown
  \/ \E rawValue \in StreamValues(appStream), frozen \in BOOLEAN :
        ApplyDataMapping(TheEngine, appStream, rawValue, I(1), frozen)
  \/ ResetDataSmoothing(TheEngine)
  \/ \E st \in DataStream : HandleStreamChange(TheEngine, st)

FeedSpec == Init /\ [][FeedNext]_vars

\* The arpeggiator rate of one engine instance: its session, started with
\* parameters in or out of the knob ranges, and setArpRate with negative,
\* small, in-range and huge arguments.
RateNext ==
  \/ NeverStarted /\ InitContext(TheEngine, TRUE)
  \/ \E p \in MapParams :
        starting[TheEngine] /\ pendingStarts = <<>> /\ StartCall(TheEngine, p)
  \/ \E c \in CtxIds : CtxResumed(c)
  \/ Stop(TheEngine)
  \/ Teardown
  \/ \E ms \in ArpRateInputs : SetArpRate(TheEngine, ms)

RateSpec == Init /\ [][RateNext]_vars

\* One engine instance with every operation and both timers: any SynthParams,
\* the arpeggiator enabled, disabled and firing.
ArpBounds == \A c \in CtxIds : c > ArpMaxCtx => ctxState[c] = "new"

ArpNext ==
  \/ \E avail \in BOOLEAN : InitContext(TheEngine, avail) /\ ArpBounds'
  \/ \E p \in SynthParams : StartCall(TheEngine, p)
  \/ \E c \in CtxIds : CtxResumed(c)
  \/ Stop(TheEngine)
  \/ Teardown
  \/ ArpFire(TheEngine)
  \/ \E enabled \in BOOLEAN : SetArpEnabled(TheEngine, enabled)

ArpSpec == Init /\ [][ArpNext]_vars

\* The envelope gains of one engine instance and its one session, with the
\* timelines followed: pools of one voice and more, two envelope settings,
\* the arpeggiator firing, disabled and enabled, the geomagnetic mapping,
\* stop, and time passing on the context.  Nothing runs on the event loop
\* once a call on it does not return.
ADSRSettings == {DEFAULT_SYNTH_PARAMS.adsr, [attack |-> I(0), sustain |-> I(1)]}

EnvParams ==
  {[DEFAULT_SYNTH_PARAMS EXCEPT !.arpEnabled = b, !.adsr = a,
                                !.voices = SubSeq(DEFAULT_VOICES, 1, n)] :
     b \in BOOLEAN, n \in 1..MaxPool, a \in ADSRSettings}

KpValues == {I(4)}

EnvInit ==
  /\ Constructed
  /\ tracking = {"timelines", "pitch"}
  /\ lastCall = Call("new", NoEngine, FALSE, "void")

EnvNext ==
  \/ /\ ~hung
     /\ \/ NeverStarted /\ InitContext(TheEngine, TRUE)
        \/ \E p \in EnvParams :
              starting[TheEngine] /\ pendingStarts = <<>> /\ StartCall(TheEngine, p)
        \/ \E c \in CtxIds : CtxResumed(c)
        \/ ArpFire(TheEngine)
        \/ \E enabled \in BOOLEAN : SetArpEnabled(TheEngine, enabled)
        \/ \E rawValue \in KpValues :
              ApplyDataMapping(TheEngine, "kp", rawValue, I(1), FALSE)
        \/ Stop(TheEngine)
        \/ Teardown
  \/ Elapse(TheEngine)

EnvSpec == EnvInit /\ [][EnvNext]_vars

\* The arpeggiator of one engine instance in its one session, firing with
\* the envelope settings it was started with.
FireNext ==
  ~hung /\
    \/ NeverStarted /\ InitContext(TheEngine, TRUE)
    \/ \E p \in EnvParams :
          starting[TheEngine] /\ pendingStarts = <<>> /\ StartCall(TheEngine, p)
    \/ \E c \in CtxIds : CtxResumed(c)
    \/ ArpFire(TheEngine)
    \/ Stop(TheEngine)
    \/ Teardown

FireInit ==
  /\ Constructed
  /\ tracking = {"envelopes"}
  /\ lastCall = Call("new", NoEngine, FALSE, "void")

FireSpec == FireInit /\ [][FireNext]_vars

\* The chord editor and the waveform selector on one engine instance: pools
\* of two voices, the default chord and an edited one, both waveforms in use.
PitchChords ==
  {SubSeq(DEFAULT_VOICES, 1, 2),
   <<[note |-> "D", octave |-> 3], [note |-> "H", octave |-> 3]>>}

PitchParams ==
  {[DEFAULT_SYNTH_PARAMS EXCEPT !.arpEnabled = b, !.waveform = w, !.voices = c] :
     b \in BOOLEAN, w \in {"triangle", "sine"}, c \in PitchChords}

PitchInit ==
  /\ Constructed
  /\ tracking = {"pitch"}
  /\ lastCall = Call("new", NoEngine, FALSE, "void")

PitchNext ==
  \/ NeverStarted /\ InitContext(TheEngine, TRUE)
  \/ \E p \in PitchParams :
        starting[TheEngine] /\ pendingStarts = <<>> /\ StartCall(TheEngine, p)
  \/ \E c \in CtxIds : CtxResumed(c)
  \/ ArpFire(TheEngine)
  \/ \E enabled \in BOOLEAN : SetArpEnabled(TheEngine, enabled)
  \/ \E p \in PitchParams : UpdateParams(TheEngine, p)
  \/ Stop(TheEngine)
  \/ Teardown

PitchSpec == PitchInit /\ [][PitchNext]_vars

\* the event loop runs the timers, and a context constructed in a user
\* gesture starts rendering
FairArpSpec ==
  /\ ArpSpec
  /\ WF_vars(Teardown)
  /\ WF_vars(ArpFire(TheEngine))
  /\ WF_vars(\E c \in CtxIds : CtxResumed(c))

----------------------------------------------------------------------------
\* chord voices plus the colour voice of an engine
LiveVoices(e) ==
  Len(voices[e]) + (IF sharpElevenVoice[e] = NoVoice THEN 0 ELSE 1)

TeardownPending(e) ==
  \E i \in DOMAIN teardownTimers : teardownTimers[i].eng = e

\* C1: the number of live voices is 5 while the engine is running and 0
\* while it is not running (read in the claim's favour: an engine whose
\* teardown timer is still pending does not count as not running yet).
C1_VoiceCount ==
  \A e \in Engines :
    /\ running[e] => LiveVoices(e) = NumChordVoices + 1
    /\ (~running[e] /\ ~TeardownPending(e)) => LiveVoices(e) = 0

\* an instance between a successful initContext() and the end of its start()
InStarting(e) == starting[e] /\ ctx[e] # NoCtx

\* C2: at most one engine instance is in the Starting or Running state at
\* any time.
C2_OneInstanceBusy ==
  Cardinality({e \in Engines : InStarting(e) \/ running[e]}) <= 1

\* C3 (as claimed): initContext() returns false whenever another instance is
\* starting or running, and true only when no other instance is (of the
\* calls that return).
C3_FalseWhenOtherBusy ==
  (lastCall.op = "initContext" /\ lastCall.result # "throw") =>
    /\ (lastCall.pre.otherStarting \/ lastCall.pre.otherRunning) => lastCall.result = "false"
    /\ lastCall.result = "true" => ~(lastCall.pre.otherStarting \/ lastCall.pre.otherRunning)

\* C3 (amended): initContext() returns false exactly when the instance is
\* itself starting or running or the window-level starting flag is set;
\* another instance that is running does not make it return false.
C3_FalseIffGuarded ==
  lastCall.op = "initContext" =>
    (lastCall.result = "false"
       <=> (lastCall.pre.starting \/ lastCall.pre.running \/ lastCall.pre.win))

C3_Witness ==
  /\ lastCall.op = "initContext"
  /\ lastCall.result = "true"
  /\ lastCall.pre.otherRunning

\* C4: when acquiring the audio context fails, initContext() returns false.
C4_UnavailableReturnsFalse ==
  (lastCall.op = "initContext" /\ ~lastCall.arg) => lastCall.result = "false"

\* C5: start() on an engine that is already running changes nothing: voices,
\* graph, parameters, arpeggiator timer, running flag, window-level guard.
C5_StartWhileRunningIsNoop ==
  [][\A e \in Engines :
       (running[e] /\ lastCall'.op = "start" /\ lastCall'.eng = e)
         => UNCHANGED progVars]_vars

\* an engine that is neither running nor starting
Stopped(e) == ~running[e] /\ ~starting[e]

\* C6: stop() on an engine that is already stopped changes no state and
\* schedules no teardown, and a stop() right after a stop() changes nothing.
C6_StopIdempotent ==
  [][\A e \in Engines :
       (/\ lastCall'.op = "stop" /\ lastCall'.eng = e
        /\ Stopped(e) \/ (lastCall.op = "stop" /\ lastCall.eng = e))
         => UNCHANGED progVars]_vars

C6_Witness ==
  /\ lastCall.op = "stop"
  /\ ~lastCall.pre.running /\ ~lastCall.pre.starting
  /\ \E o \in Engines \ {lastCall.eng} : InStarting(o) /\ winStarting
  /\ TeardownPending(lastCall.eng)

\* C7: at most one teardown timer of an engine is pending at any time.
C7_OneTeardownPending ==
  \A e \in Engines :
    Cardinality({i \in DOMAIN teardownTimers : teardownTimers[i].eng = e}) <= 1

\* C8: every oscillator released by a teardown had its envelope gain ramped
\* to silence by the stop() that scheduled that teardown, or by an earlier
\* one (contexts are numbered in the order they were acquired).
C8_ReleaseAfterRamp ==
  lastCall.op = "teardown" =>
    \A r \in lastCall.released : r.rampCtx # NoCtx /\ r.rampCtx <= r.by

\* C9: after stop() was called on a running engine, the context its graph
\* lives in is eventually closed; and so is the context the engine held
\* when stop() was called.
C9_StopReleasesContext ==
  \A c \in CtxIds :
    [](( /\ lastCall.op = "stop"
         /\ \/ lastCall.pre.running /\ masterGain[lastCall.eng] = c
            \/ lastCall.pre.ctx = c )
       => <>(ctxState[c] = "closed"))

\* C10: after setArpEnabled(false) or stop() no arpeggiator timer of the
\* engine is pending.
C10_NoArpTimerAfterDisable ==
  \A e \in Engines :
    ( /\ lastCall.eng = e /\ lastCall.result = "void"
      /\ \/ lastCall.op = "setArpEnabled" /\ ~lastCall.arg
         \/ lastCall.op = "stop" )
    => arpTimers[e] = {}

\* C11: setArpEnabled(true) on a running engine whose arpeggiator was
\* disabled leaves a fresh, tracked timer pending, and every firing on an
\* engine that is running and enabled leaves the next timer pending.
C11_ReenableResumes ==
  [][/\ (/\ lastCall'.op = "setArpEnabled" /\ lastCall'.arg
         /\ running[TheEngine] /\ ~arpEnabled[TheEngine])
        => (/\ arpTimerId'[TheEngine] # NoTimer
            /\ arpTimerId'[TheEngine] \in arpTimers'[TheEngine])
     /\ (/\ lastCall'.op = "arpFire"
         /\ running'[TheEngine] /\ arpEnabled'[TheEngine])
        => arpTimers'[TheEngine] # {}]_vars

\* C12: setArpRate(ms) leaves the arp rate at 300 for ms below 300, at 16000
\* for ms above 16000, and at ms in between.
C12_SetArpRateClamps ==
  lastCall.op = "setArpRate" =>
    arpRate[TheEngine] =
      (IF QLt(lastCall.arg, I(300)) THEN I(300)
       ELSE IF QLt(I(16000), lastCall.arg) THEN I(16000)
       ELSE lastCall.arg)

C12_Witness ==
  /\ lastCall.op = "setArpRate"
  /\ QLt(lastCall.arg, I(0))
  /\ running[TheEngine]
  /\ arpRate[TheEngine] = I(300)

\* C13: the arp rate of every engine lies in [300, 16000] ms.
C13_ArpRateInRange ==
  \A e \in Engines : QLe(I(300), arpRate[e]) /\ QLe(arpRate[e], I(16000))

\* x lies between a and b, ends included
Between(a, x, b) ==
  \/ QLe(a, x) /\ QLe(x, b)
  \/ QLe(b, x) /\ QLe(x, a)

\* C14: applyDataMapping with frozen = true, or on an engine that is not
\* running, changes nothing but the EMA: the arp rate, every scheduled graph
\* target, the voices and the timers stay as they were, and the call returns
\* the updated smoothed value (the raw value on the first sample, else
\* 0.12 * raw + 0.88 * previous).
C14_FrozenOrStoppedOnlySmooths ==
  [][(/\ lastCall'.op = "applyDataMapping"
      /\ (lastCall'.arg.frozen \/ ~running[TheEngine]))
     => /\ UNCHANGED <<arpRate, targets, voices, sharpElevenVoice, masterGain,
                       arpEnabled, arpTimerId, arpTimers, params, running,
                       starting, ctx, ctxState, teardownTimers, pendingStarts,
                       winEngine, winStarting>>
        /\ dataEma'[TheEngine] =
             (IF dataEma[TheEngine] = NoNum THEN lastCall'.arg.rawValue
              ELSE QAdd(QMul(Q(12, 100), lastCall'.arg.rawValue),
                        QMul(Q(88, 100), dataEma[TheEngine])))
        /\ lastCall'.result = dataEma'[TheEngine]]_vars

C14_Witness ==
  /\ lastCall.op = "applyDataMapping"
  /\ lastCall.arg.frozen
  /\ lastCall.pre.running
  /\ lastCall.pre.ctx # NoCtx
  /\ lastCall.pre.ema # NoNum
  /\ lastCall.result # lastCall.pre.ema
  /\ targets[TheEngine] # NoTargets

\* C15: EMA.update returns the raw value on the first call and on the first
\* call after a reset, and on every later call a value between the previous
\* smoothed value and the new raw value.
C15_EmaConvex ==
  lastCall.op = "applyDataMapping" =>
    IF lastCall.pre.ema = NoNum
    THEN lastCall.result = lastCall.arg.rawValue
    ELSE Between(lastCall.pre.ema, lastCall.result, lastCall.arg.rawValue)

C15_Witness ==
  /\ lastCall.op = "applyDataMapping"
  /\ lastCall.pre.ema # NoNum
  /\ QLt(lastCall.pre.ema, lastCall.result)
  /\ QLt(lastCall.result, lastCall.arg.rawValue)

\* C16: the applyDataMapping call that follows resetDataSmoothing() returns
\* its raw input as the smoothed value, whatever samples came before the
\* reset and whether or not the engine is running or the call is frozen.
C16_ResetReseeds ==
  [][(/\ lastCall.op = "resetDataSmoothing"
      /\ lastCall'.op = "applyDataMapping")
     => lastCall'.result = lastCall'.arg.rawValue]_vars

C16_Witness ==
  /\ lastCall.op = "applyDataMapping"
  /\ samplesFed[TheEngine] >= 2
  /\ lastCall.pre.ema = NoNum
  /\ lastCall.pre.running
  /\ ~lastCall.arg.frozen
  /\ lastCall.result = lastCall.arg.rawValue

\* The mapping table of applyDataMapping, per stream kind: the domain of the
\* smoothed value, the parameters it drives (as they stand in the state),
\* and the output each has at the domain minimum and at the domain maximum.
MapDomain(st) ==
  CASE st = "solar-wind-speed" -> <<I(250), I(800)>>
    [] st = "solar-wind-density" -> <<I(1), I(20)>>
    [] st = "kp" -> <<I(0), I(9)>>
    [] st = "xray" -> <<Q(1, 100000000), Q(1, 10000)>>

MapOutputs(st, tg, rate) ==
  CASE st = "solar-wind-speed" -> <<tg.filterFrequency, rate>>
    [] st = "solar-wind-density" -> <<tg.reverbMix>>
    [] st = "kp" -> <<tg.lfoDepth, tg.colorGain, tg.filterQ>>
    [] st = "xray" -> <<tg.filterFrequency, tg.reverbMix>>

MapAtMin(st) ==
  CASE st = "solar-wind-speed" -> <<I(400), I(5000)>>
    [] st = "solar-wind-density" -> <<Q(15, 100)>>
    [] st = "kp" -> <<I(30), Q(2, 100), Q(5, 10)>>
    [] st = "xray" -> <<I(600), Q(1, 10)>>

MapAtMax(st) ==
  CASE st = "solar-wind-speed" -> <<I(4000), I(1500)>>
    [] st = "solar-wind-density" -> <<Q(65, 100)>>
    [] st = "kp" -> <<I(300), Q(25, 100), I(6)>>
    [] st = "xray" -> <<I(5000), Q(6, 10)>>

\* the last call was an applyDataMapping that reached the switch, at
\* sensitivity 1, where the value scheduled is the mapped candidate
MappedAtFull ==
  /\ lastCall.op = "applyDataMapping"
  /\ lastCall.pre.running /\ lastCall.pre.ctx # NoCtx
  /\ ~lastCall.arg.frozen
  /\ lastCall.arg.sensitivity = I(1)

\* outputs lo (at the smaller input) and hi (at the larger) follow the
\* direction of the mapping from atMin to atMax
InOrder(lo, hi, atMin, atMax) ==
  IF QLe(atMin, atMax) THEN QLe(lo, hi) ELSE QLe(hi, lo)

\* C17: every range mapping of the table clamps and is monotonic: a smoothed
\* value at or below the domain minimum gives the output of the minimum, one
\* at or above the maximum gives the output of the maximum, every output
\* lies within its output range (the inverse 5000..1500 arp mapping
\* included), and of two values mapped one after the other the larger gives
\* the output further along the range.
C17_MappingsClampAndMonotonic ==
  [][/\ MappedAtFull' =>
          LET st == lastCall'.arg.stream
              v == lastCall'.result
              out == MapOutputs(st, targets'[TheEngine], arpRate'[TheEngine])
          IN \A i \in DOMAIN out :
               /\ Between(MapAtMin(st)[i], out[i], MapAtMax(st)[i])
               /\ QLe(v, MapDomain(st)[1]) => out[i] = MapAtMin(st)[i]
               /\ QLe(MapDomain(st)[2], v) => out[i] = MapAtMax(st)[i]
     /\ (/\ MappedAtFull /\ MappedAtFull'
         /\ lastCall.arg.stream = lastCall'.arg.stream) =>
          LET st == lastCall.arg.stream
              x == lastCall.result
              y == lastCall'.result
              fx == MapOutputs(st, targets[TheEngine], arpRate[TheEngine])
              fy == MapOutputs(st, targets'[TheEngine], arpRate'[TheEngine])
          IN \A i \in DOMAIN fx :
               /\ QLe(x, y) => InOrder(fx[i], fy[i], MapAtMin(st)[i], MapAtMax(st)[i])
               /\ QLe(y, x) => InOrder(fy[i], fx[i], MapAtMin(st)[i], MapAtMax(st)[i])]_vars

\* a second wind-speed sample mapped inside the domain, above the one
\* before it: the arp rate lies strictly between 1500 and 5000
C17_Witness ==
  /\ MappedAtFull
  /\ lastCall.arg.stream = "solar-wind-speed"
  /\ lastCall.pre.ema # NoNum
  /\ QLt(I(250), lastCall.pre.ema)
  /\ QLt(lastCall.pre.ema, lastCall.result)
  /\ QLt(lastCall.result, I(800))
  /\ QLt(I(1500), arpRate[TheEngine])
  /\ QLt(arpRate[TheEngine], I(5000))
  /\ QLt(I(400), targets[TheEngine].filterFrequency)

\* the last call was an applyDataMapping that reached the switch
Mapped ==
  /\ lastCall.op = "applyDataMapping"
  /\ lastCall.pre.running /\ lastCall.pre.ctx # NoCtx
  /\ ~lastCall.arg.frozen

\* sensitivity * candidate + (1 - sensitivity) * current
Blend(sens, candidate, current) ==
  QAdd(QMul(sens, candidate), QMul(QSub(I(1), sens), current))

\* C18: on a running, unfrozen engine applyDataMapping leaves every target
\* of the stream kind at sensitivity * candidate + (1 - sensitivity) * current,
\* current being the parameter of this.params (filter cutoff, arp rate,
\* reverb mix, resonance, colour intensity); and at sensitivity 1 with a
\* geomagnetic smoothed value of 9 the resonance target is 6 and the LFO
\* depth target is 300.  (SynthParams has no LFO depth, so the LFO target is
\* stated for sensitivity 1 only.)
C18_BlendedTargets ==
  Mapped =>
    LET st == lastCall.arg.stream
        s == lastCall.arg.sensitivity
        v == lastCall.result
        p == params[TheEngine]
        tg == targets[TheEngine]
        norm == mapRange(Log10(MathMax(v, Q(1, 1000000000))), I(-8), I(-4), I(0), I(1))
    IN /\ st = "solar-wind-speed" =>
            /\ tg.filterFrequency =
                 Blend(s, mapRangeLog(v, I(250), I(800), I(400), I(4000)), p.cutoff)
            /\ arpRate[TheEngine] =
                 Blend(s, mapRange(v, I(250), I(800), I(5000), I(1500)), p.arpRate)
       /\ st = "solar-wind-density" =>
            tg.reverbMix = Blend(s, mapRange(v, I(1), I(20), Q(15, 100), Q(65, 100)), p.reverbMix)
       /\ st = "kp" =>
            /\ tg.filterQ = Blend(s, mapRange(v, I(0), I(9), Q(1, 2), I(6)), p.resonance)
            /\ tg.colorGain =
                 Blend(s, mapRange(v, I(0), I(9), Q(2, 100), Q(25, 100)), p.sharpElevenIntensity)
            /\ (s = I(1) /\ v = I(9)) => (tg.filterQ = I(6) /\ tg.lfoDepth = I(300))
       /\ st = "xray" =>
            /\ tg.filterFrequency =
                 Blend(s, mapRangeLog(norm, I(0), I(1), I(600), I(5000)), p.cutoff)
            /\ tg.reverbMix = Blend(s, mapRange(norm, I(0), I(1), Q(1, 10), Q(6, 10)), p.reverbMix)

\* C19: every reverb-mix and colour-intensity target the engine sets lies in
\* [0, 1] and every gain target (master volume, reverb wet and dry, LFO
\* depth, colour voice) is non-negative.
C19_TargetsInRange ==
  \A e \in Engines :
    targets[e] # NoTargets =>
      /\ QLe(I(0), targets[e].reverbMix) /\ QLe(targets[e].reverbMix, I(1))
      /\ QLe(I(0), targets[e].colorGain) /\ QLe(targets[e].colorGain, I(1))
      /\ QLe(I(0), targets[e].masterVolume)
      /\ QLe(I(0), targets[e].reverbDry)
      /\ QLe(I(0), targets[e].lfoDepth)

\* C20: the Take stopRecording() returns holds no block captured before the
\* startRecording() call it ends.
C20_NoBlockFromBeforeStart ==
  (lastCall.op = "stopRecording" /\ lastCall.result.take) =>
    \A i \in DOMAIN lastCall.result.blocks :
      lastCall.result.blocks[i] > blocksAtStart

\* C21: a stopRecording() called while recording with at least one block in
\* the buffer returns a Take of those blocks and leaves the recorder not
\* recording with an empty buffer; a stopRecording() called directly after
\* another stopRecording() returns none.
C21_TakeThenNone ==
  lastCall.op = "stopRecording" =>
    /\ (lastCall.pre.recording /\ lastCall.pre.buffered) =>
         /\ lastCall.result.take
         /\ lastCall.result.blocks # <<>>
         /\ ~recording
         /\ buffers = <<>>
    /\ lastCall.pre.afterStop => ~lastCall.result.take

\* a second stopRecording() in a row, after one that returned a Take
C21_Witness ==
  /\ lastCall.op = "stopRecording"
  /\ lastCall.pre.afterTake
  /\ ~lastCall.result.take

\* C22: a stopRecording() called while recording with no block in the buffer
\* returns none and leaves the recorder not recording; no Take is ever made
\* of zero blocks.
C22_NoEmptyTake ==
  lastCall.op = "stopRecording" =>
    /\ (lastCall.pre.recording /\ ~lastCall.pre.buffered) =>
         (~lastCall.result.take /\ ~recording)
    /\ lastCall.result.take => lastCall.result.blocks # <<>>

\* a recording stopped before any block reached the buffer, on a recorder
\* with a tap
C22_Witness ==
  /\ lastCall.op = "stopRecording"
  /\ lastCall.pre.recording
  /\ ~lastCall.pre.buffered
  /\ Len(workletNodes) + scriptNodes > 0
  /\ ~lastCall.result.take

\* C23: in the Take stopRecording() returns, every channel is as long as
\* the blocks together, and sample k of a channel is the sample the block
\* at that position holds for the channel at that place; where the block
\* has no such channel the sample is zero.
C23_MergedInBlockOrder ==
  (lastCall.op = "stopRecording" /\ lastCall.result.take) =>
    LET blocks == lastCall.result.blocks
        data == lastCall.result.channelData
    IN /\ Len(data) = blockChannels[blocks[1]]
       /\ \A ch \in DOMAIN data :
            /\ Len(data[ch]) = BlockLen * Len(blocks)
            /\ \A k \in DOMAIN data[ch] :
                 LET b == blocks[((k - 1) \div BlockLen) + 1]
                 IN data[ch][k] = IF blockChannels[b] >= ch
                                    THEN <<b, ch, ((k - 1) % BlockLen) + 1>>
                                    ELSE Zero

\* C26: the buffer never holds a block twice.
C26_EachBlockOnce ==
  \A i, j \in DOMAIN buffers : buffers[i] = buffers[j] => i = j

\* the 16-bit value and the unsigned fields stored at a byte offset
Int16At(bytes, off) ==
  LET u == bytes[off + 1] + 256 * bytes[off + 2]
  IN IF u >= 32768 THEN u - 65536 ELSE u

Uint16At(bytes, off) == bytes[off + 1] + 256 * bytes[off + 2]

Uint32At(bytes, off) ==
  bytes[off + 1] + 256 * bytes[off + 2] + 65536 * bytes[off + 3]
    + 16777216 * bytes[off + 4]

\* C24: every sample of an encodeWav input is stored as a value in
\* [-32768, 32767]: 32767 for a sample of 1 or more, -32768 for a sample
\* of -1 or less, and in between the sample times 32768 (negative) or
\* 32767 (non-negative) with its fraction dropped.
C24_SampleEncoding ==
  lastCall.op = "encodeWav" =>
    LET cd == lastCall.arg.channelData
        C == Len(cd)
    IN \A ch \in 1..C : \A i \in 1..Len(cd[ch]) :
         LET x == cd[ch][i]
             v == Int16At(lastCall.result, 44 + 2 * ((i - 1) * C + (ch - 1)))
         IN /\ v \in -32768..32767
            /\ (x = Infinity \/ (x.d # 0 /\ QLe(I(1), x))) => v = 32767
            /\ (x = NegInfinity \/ (x.d # 0 /\ QLe(x, I(-1)))) => v = -32768
            /\ (x.d # 0 /\ QLt(I(-1), x) /\ QLt(x, I(0))) =>
                 /\ QLe(QMul(x, I(32768)), I(v))
                 /\ QLt(I(v - 1), QMul(x, I(32768)))
            /\ (x.d # 0 /\ QLe(I(0), x) /\ QLt(x, I(1))) =>
                 /\ QLe(I(v), QMul(x, I(32767)))
                 /\ QLt(QMul(x, I(32767)), I(v + 1))

\* a sample above 1 stored as 32767
C24_Witness ==
  /\ lastCall.op = "encodeWav"
  /\ lastCall.arg.channelData = <<<<Q(3, 2)>>>>
  /\ Int16At(lastCall.result, 44) = 32767

\* C25: for C channels of N samples encodeWav returns 44 + N*C*2 bytes; the
\* header declares total size 36 + N*C*2, data size N*C*2, C channels, the
\* sample rate, byte rate sampleRate*2*C, block alignment 2*C and 16 bits,
\* and sample i of channel ch is stored at offset 44 + 2*(i*C + ch).
C25_WavLayout ==
  lastCall.op = "encodeWav" =>
    LET cd == lastCall.arg.channelData
        rate == lastCall.arg.sampleRate
        bytes == lastCall.result
        C == Len(cd)
        N == Len(cd[1])
    IN /\ Len(bytes) = 44 + N * C * 2
       /\ \A k \in DOMAIN bytes : bytes[k] \in 0..255
       /\ SubSeq(bytes, 1, 4) = RIFF
       /\ Uint32At(bytes, 4) = 36 + N * C * 2
       /\ SubSeq(bytes, 9, 16) = WAVE \o FMT
       /\ Uint32At(bytes, 16) = 16
       /\ Uint16At(bytes, 20) = 1
       /\ Uint16At(bytes, 22) = C
       /\ Uint32At(bytes, 24) = rate
       /\ Uint32At(bytes, 28) = rate * 2 * C
       /\ Uint16At(bytes, 32) = 2 * C
       /\ Uint16At(bytes, 34) = 16
       /\ SubSeq(bytes, 37, 40) = DATA
       /\ Uint32At(bytes, 40) = N * C * 2
       /\ \A ch \in 0..(C - 1) : \A i \in 0..(N - 1) :
            Int16At(bytes, 44 + 2 * (i * C + ch)) = Pcm16(cd[ch + 1][i + 1])

\* two channels of two samples each, all four stored differently
C25_Witness ==
  /\ lastCall.op = "encodeWav"
  /\ lastCall.arg.channelData = <<<<I(-1), Q(1, 2)>>, <<Q(3, 2), I(-1)>>>>
  /\ Len(lastCall.result) = 52

\* x lies in [lo, hi]
Within(x, lo, hi) == QLe(lo, x) /\ QLe(x, hi)

\* C27: for every voice an arpeggiator firing fired, the peak level lies in
\* [0.35*sustain, 0.55*sustain] and the attack time in
\* [0.1, 0.1 + 0.3*attack] of the engine's current envelope settings; with
\* sustain 0.6 the peak lies in [0.21, 0.33].
C27_EnvelopeInRange ==
  lastCall.op = "arpFire" =>
    \A i \in lastCall.result.fired :
      LET env == lastCall.result.envelope[i]
          adsr == params[TheEngine].adsr
      IN /\ Within(env.peakLevel, QMul(Q(7, 20), adsr.sustain),
                   QMul(Q(11, 20), adsr.sustain))
         /\ Within(env.attack, Q(1, 10),
                   QAdd(Q(1, 10), QMul(Q(3, 10), adsr.attack)))
         /\ adsr.sustain = Q(3, 5) =>
              Within(env.peakLevel, Q(21, 100), Q(33, 100))

\* a firing of two voices on a running engine with sustain 0.6, one of them
\* with the highest draws
C27_Witness ==
  /\ lastCall.op = "arpFire"
  /\ lastCall.pre.running
  /\ Cardinality(lastCall.result.fired) = 2
  /\ params[TheEngine].adsr.sustain = Q(3, 5)
  /\ \E i \in lastCall.result.fired :
        QLt(Q(32, 100), lastCall.result.envelope[i].peakLevel)

\* C28: a firing on a running engine with a voice pool returns, having fired
\* one voice or two different voices of the pool.
C28_FiresOneOrTwo ==
  (/\ lastCall.op = "arpFire"
   /\ lastCall.pre.running
   /\ lastCall.pre.ctx # NoCtx
   /\ Len(voices[TheEngine]) > 0) =>
    /\ ~lastCall.result.hangs
    /\ Cardinality(lastCall.result.fired) \in {1, 2}
    /\ lastCall.result.fired \subseteq DOMAIN voices[TheEngine]

\* C29: on every envelope gain the events in effect from now on are those
\* of one writer.
C29_OneWriterInEffect ==
  /\ \A i \in DOMAIN voices[TheEngine] :
       Cardinality(InEffect(voices[TheEngine][i])) <= 1
  /\ Cardinality(InEffect(sharpElevenVoice[TheEngine])) <= 1

\* C30: after setArpEnabled(false) on a running engine whose arpeggiator
\* had a timer pending, the event in effect on every envelope gain is the
\* one of the call, none is scheduled after it, every chord voice is tuned
\* to its base pitch, and the levels the call computes are sustain*0.2 and
\* sharpElevenIntensity*0.1.
C30_DisableSettles ==
  (/\ lastCall.op = "setArpEnabled"
   /\ ~lastCall.arg
   /\ lastCall.pre.running
   /\ lastCall.pre.ctx # NoCtx
   /\ lastCall.pre.timers # {}) =>
    /\ \A i \in DOMAIN voices[TheEngine] :
         /\ voices[TheEngine][i].env = [current |-> "disable", pending |-> {}]
         /\ voices[TheEngine][i].osc.target = voices[TheEngine][i].osc.baseMidi
    /\ InEffect(sharpElevenVoice[TheEngine]) = {"disable"}
    /\ lastCall.result.settles
    /\ lastCall.result.level = QMul(params[TheEngine].adsr.sustain, Q(1, 5))
    /\ lastCall.result.colorLevel =
         QMul(params[TheEngine].sharpElevenIntensity, Q(1, 10))

\* C31: after updateParams(params) on a running engine every chord voice
\* that has a VoiceConfig in params has the base pitch resolved from it and
\* the waveform of params, and its oscillator frequency is targeted to that
\* base pitch.
C31_UpdateRetargets ==
  (/\ lastCall.op = "updateParams"
   /\ lastCall.pre.running
   /\ lastCall.pre.ctx # NoCtx) =>
    \A i \in DOMAIN voices[TheEngine] \cap DOMAIN lastCall.arg.voices :
      LET v == voices[TheEngine][i]
          vc == lastCall.arg.voices[i]
      IN /\ v.osc.baseMidi = noteToMidi(vc.note, vc.octave)
         /\ v.osc.type = lastCall.arg.waveform
         /\ v.osc.target = v.osc.baseMidi

\* C32: the engine is not running after a stop() call, and it becomes
\* running only while it is in the Starting state, which stop() ends and only
\* initContext() enters: a start() that a stop() overtook does not make the
\* engine run.
C32_StopCancelsStart ==
  [][/\ lastCall'.op = "stop" => ~running'[TheEngine]
     /\ (~running[TheEngine] /\ running'[TheEngine]) => starting[TheEngine]]_vars

\* C33: the teardown a stop() scheduled stops only oscillators created on
\* the context that stop() ended, so it empties no voice list of a later
\* session, and it leaves the context reference of a later session in place.
C33_TeardownOwnSession ==
  [][lastCall'.op = "teardown" =>
       LET ended == Head(teardownTimers).ctx IN
         /\ \A r \in lastCall'.released : r.ctx = ended
         /\ ctx'[TheEngine] = ctx[TheEngine] \/ ctx[TheEngine] = ended]_vars

\* C34: at most one arpeggiator timer of the engine is pending at any time.
C34_OneArpTimer == Cardinality(arpTimers[TheEngine]) <= 1

\* C35: after setArpEnabled(enabled) on a running engine an arpeggiator
\* timer is pending if and only if enabled is true.
C35_TimerIffRequested ==
  (lastCall.op = "setArpEnabled" /\ running[TheEngine]) =>
    (arpTimers[TheEngine] # {} <=> lastCall.arg)

\* C36: the process-wide starting flag is set exactly when some instance is
\* between a successful initContext() and the end of its start(), and no
\* instance has its own starting flag set without a context to start on.
C36_FlagIffStarting ==
  /\ winStarting <=> \E e \in Engines : InStarting(e)
  /\ \A e \in Engines : starting[e] => ctx[e] # NoCtx

\* the upstream fetches for key that have not settled
InProgress(key) ==
  {f \in DOMAIN fetches :
     fetches[f].key = key /\ fetches[f].stage \in {"fetching", "reading"}}

C38_CacheFreshAndGood ==
  /\ (lastCall.op = "request" /\ lastCall.result.from = "cache") =>
       LET entry == lastCall.pre.store[lastCall.arg] IN
         /\ entry # NoEntry
         /\ lastCall.pre.now <= entry.expiry
         /\ lastCall.result.data = entry.data
  /\ (lastCall.op = "request" /\ lastCall.result.from = "await") =>
       LET entry == lastCall.pre.store[lastCall.arg] IN
         /\ entry = NoEntry \/ lastCall.pre.now > entry.expiry
         /\ store[lastCall.arg] = NoEntry
  /\ \A k \in Keys :
       store[k] # NoEntry =>
         /\ fetches[store[k].data].stage = "fulfilled"
         /\ fetches[store[k].data].key = k
         /\ store[k].expiry <= now + TTL(k)
  /\ (lastCall.op = "settled" /\ ~lastCall.result.ok) => store = lastCall.pre.store

\* a lookup found an entry past its expiry and removed it
C38_Witness ==
  /\ lastCall.op = "request"
  /\ lastCall.result.from = "await"
  /\ lastCall.pre.store[lastCall.arg] # NoEntry
  /\ lastCall.pre.now = lastCall.pre.store[lastCall.arg].expiry + 1
====
